---- MODULE Spec2Model ----
(***************************************************************************)
(* A model of littlefs2: the Rust front end (src/src/fs.rs, core/src/*.rs)  *)
(* over the littlefs backend.  The module holds several specifications,     *)
(* one per part of the program:                                             *)
(*   SpecPath   the Path / PathBuf constructors (core/src/path.rs)          *)
(*   SpecFile   whole-file write / read, directories, remount               *)
(*   SpecScoped the scoped handle calls (open_and_then, read_dir_and_then)  *)
(*   SpecAttr   user attributes                                             *)
(*   SpecTree   remove and rename                                           *)
(*   SpecIter   directory iteration under mutation                          *)
(*   SpecCrash  the prog / erase calls of an operation, and power loss      *)
(*   SpecRemoveAll  remove_dir_all and remove_dir_all_where                 *)
(*   SpecHandles    files opened and closed by hand, several at a time      *)
(*   SpecBlocks     the number of available blocks                          *)
(*   SpecAttrMax    attributes at the size limit                            *)
(*   SpecFileName   Path::file_name                                         *)
(*   SpecAncestors  Path::parent and Path::ancestors                        *)
(*   SpecCmp        Path::cmp_str and Path::cmp_lfs                         *)
(*   SpecOrder      the order of a directory listing, tell, seek, rewind    *)
(*   SpecSeek       set_len, seek and append on an open file                *)
(*   SpecChunk      read, read_chunk and write_chunk                        *)
(*   SpecCodes      the mapping of the backend's return codes               *)
(*   SpecPathBuf    PathBuf: new, clear, push, From, try_from, Path::join   *)
(*   SpecComponents Path::iter                                              *)
(*   SpecCreateAll  create_dir_all                                          *)
(*   SpecMountOrElse mount_or_else                                          *)
(*   SpecRemount    two mounts in a row and available_blocks                *)
(*   SpecScopedResult what the scoped calls return                          *)
(*   SpecOptions    the setters of OpenOptions                              *)
(*   SpecWriteAll   io::Write::write_all and io::Read::read_exact           *)
(*   SpecDriver     a storage driver that returns errors                    *)
(* Paths and file contents are byte strings: sequences of numbers 0..255.   *)
(***************************************************************************)
EXTENDS Integers, Sequences, FiniteSets, TLC

VARIABLES
    pin,        \* the path specifications: the byte string handed to the call
    pout,       \* the path specifications: what the last call returned
    fs,         \* the storage's committed tree and the mounted littlefs state
    stack,      \* the scoped calls in progress, innermost last
    last,       \* the last API call: its name, arguments, result, state before
    wrote,      \* the last successful write or attribute update not followed by
                \* a change of the tree, and the attributes ever set
    steps,      \* number of API calls that may still be made
    dev,        \* SpecCrash: the storage, one element per program unit
    stream,     \* SpecCrash: the prog / erase calls the running operation
                \* has still to make
    cur         \* SpecCrash: the running operation and the trees before
                \* and after it

pathVars == <<pin, pout>>
fsVars == <<fs, stack, last, wrote, steps>>
devVars == <<dev, stream, cur>>
vars == <<pin, pout, fs, stack, last, wrote, steps, dev, stream, cur>>

\* the storage variables outside SpecCrash
DevIdle == dev = <<>> /\ stream = <<>> /\ cur = "unused"

(***************************************************************************)
(* Bytes.  A byte string is a sequence of numbers 0..255.                   *)
(***************************************************************************)
NUL == 0
SLASH == 47
LETTER_A == 97
UTF8_LEAD == 195
UTF8_CONT == 188

\* u8::is_ascii as used by path.rs
is_ascii(b) == b <= 127

bytes_is_ascii(s) == \A i \in 1..Len(s) : is_ascii(s[i])

Rep(b, n) == [i \in 1..n |-> b]

(***************************************************************************)
(* core/src/path.rs                                                         *)
(***************************************************************************)
MAX_SIZE == 255
MAX_SIZE_PLUS_ONE == MAX_SIZE + 1

PathOk(bytes) == [ok |-> TRUE, err |-> "none", bytes |-> bytes]
PathErr(e) == [ok |-> FALSE, err |-> e, bytes |-> <<>>]

\* CStr::from_bytes_with_nul: the first NUL of the slice is its last byte.
IsCStrWithNul(bytes) ==
    /\ Len(bytes) > 0
    /\ bytes[Len(bytes)] = NUL
    /\ \A i \in 1..(Len(bytes) - 1) : bytes[i] # NUL

\* CStr::to_bytes: the bytes before the terminating NUL.
CStr_to_bytes(cstr) == SubSeq(cstr, 1, Len(cstr) - 1)

\* Path::from_cstr with the length limit off by one.
Path_from_cstr_offbyone(cstr) ==
    LET bytes == CStr_to_bytes(cstr)
        n == Len(bytes)
    IN  IF n > MAX_SIZE_PLUS_ONE THEN PathErr("TooLarge")
        ELSE IF bytes_is_ascii(bytes) THEN PathOk(bytes)
        ELSE PathErr("NotAscii")

\* Path::from_cstr
Path_from_cstr(cstr) ==
    LET bytes == CStr_to_bytes(cstr)
        n == Len(bytes)
    IN  IF n > MAX_SIZE THEN PathErr("TooLarge")
        ELSE IF bytes_is_ascii(bytes) THEN PathOk(bytes)
        ELSE PathErr("NotAscii")

\* Path::from_bytes_with_nul
Path_from_bytes_with_nul(bytes) ==
    IF IsCStrWithNul(bytes) THEN Path_from_cstr(bytes) ELSE PathErr("NotCStr")

\* Path::from_str_with_nul
Path_from_str_with_nul(s) == Path_from_bytes_with_nul(s)

\* The loop of PathBuf::try_from over the bytes: the first offending byte
\* decides the error.
TryFromScan(bytes) ==
    LET bad == {i \in 1..Len(bytes) : bytes[i] = NUL \/ ~is_ascii(bytes[i])}
    IN  IF bad = {} THEN "none"
        ELSE LET i == CHOOSE j \in bad : \A k \in bad : j <= k
             IN  IF bytes[i] = NUL THEN "NotCStr" ELSE "NotAscii"

\* PathBuf { buf, len }: buf has MAX_SIZE_PLUS_ONE cells, len counts the NUL.
PathBufOf(bytes) ==
    [buf |-> bytes \o Rep(NUL, MAX_SIZE_PLUS_ONE - Len(bytes)), len |-> Len(bytes) + 1]

\* impl Deref for PathBuf, then Path::as_str: the bytes before the NUL at len.
PathBuf_bytes(pb) == SubSeq(pb.buf, 1, pb.len - 1)

\* impl TryFrom<&[u8]> for PathBuf
PathBuf_try_from(input) ==
    LET bytes == IF Len(input) > 0 /\ input[Len(input)] = NUL
                 THEN SubSeq(input, 1, Len(input) - 1)
                 ELSE input
    IN  IF Len(bytes) > MAX_SIZE THEN PathErr("TooLarge")
        ELSE LET e == TryFromScan(bytes)
             IN  IF e # "none" THEN PathErr(e)
                 ELSE PathOk(PathBuf_bytes(PathBufOf(bytes)))

(***************************************************************************)
(* SpecPath: a byte string is chosen, then constructors are applied to it.  *)
(***************************************************************************)
MaxShort == 2

ByteVals == {NUL, SLASH, LETTER_A, UTF8_LEAD, UTF8_CONT}
RunLens == (0..MaxShort) \cup {MAX_SIZE - 1, MAX_SIZE, MAX_SIZE + 1}

\* Inputs: up to three runs of equal bytes, so that both short strings and
\* strings around the length limit occur.
InputBytes ==
    { Rep(c1, n1) \o Rep(c2, n2) \o Rep(c3, n3) :
        c1 \in ByteVals, c2 \in ByteVals, c3 \in ByteVals,
        n1 \in RunLens, n2 \in 0..MaxShort, n3 \in 0..1 }

\* A Rust &str is valid UTF-8: here, every lead byte is followed by its
\* continuation byte and continuation bytes occur nowhere else.
IsUtf8(s) ==
    \A i \in 1..Len(s) :
        /\ s[i] = UTF8_LEAD => (i < Len(s) /\ s[i + 1] = UTF8_CONT)
        /\ s[i] = UTF8_CONT => (i > 1 /\ s[i - 1] = UTF8_LEAD)

PathInit ==
    /\ DevIdle
    /\ pin \in InputBytes
    /\ pout = [ctor |-> "none", res |-> PathErr("none")]
    /\ fs = "unused" /\ stack = <<>> /\ last = "unused" /\ wrote = "unused" /\ steps = 0

CallFromBytesWithNul ==
    /\ pout' = [ctor |-> "from_bytes_with_nul", res |-> Path_from_bytes_with_nul(pin)]
    /\ UNCHANGED <<pin, fsVars, devVars>>

CallFromStrWithNul ==
    /\ IsUtf8(pin) = TRUE
    /\ pout' = [ctor |-> "from_str_with_nul", res |-> Path_from_str_with_nul(pin)]
    /\ UNCHANGED <<pin, fsVars, devVars>>

CallFromCstr ==
    /\ IsCStrWithNul(pin) = TRUE
    /\ pout' = [ctor |-> "from_cstr", res |-> Path_from_cstr(pin)]
    /\ UNCHANGED <<pin, fsVars, devVars>>

CallPathBufTryFrom ==
    /\ pout' = [ctor |-> "try_from", res |-> PathBuf_try_from(pin)]
    /\ UNCHANGED <<pin, fsVars, devVars>>

PathNext ==
    \/ CallFromBytesWithNul
    \/ CallFromStrWithNul
    \/ CallFromCstr
    \/ CallPathBufTryFrom

SpecPath == PathInit /\ [][PathNext]_vars

(***************************************************************************)
(* Claims about paths                                                       *)
(***************************************************************************)
\* The bytes of the input before its terminating NUL (if it has one).
BeforeNul(s) ==
    IF Len(s) > 0 /\ s[Len(s)] = NUL THEN SubSeq(s, 1, Len(s) - 1) ELSE s

HasInteriorNul(s) == \E i \in 1..Len(BeforeNul(s)) : s[i] = NUL
HasNonAscii(s) == \E i \in 1..Len(s) : ~is_ascii(s[i])
TooLong(s) == Len(BeforeNul(s)) > MAX_SIZE

\* C5: a byte string with an interior NUL, a non-ASCII byte or more than 255
\* bytes before its terminating NUL is rejected by every constructor with
\* NotCStr, NotAscii or TooLarge; and every accepted value is ASCII, free of
\* NUL and at most 255 bytes long.
C5_PathValidity ==
    pout.ctor # "none" =>
        /\ (HasInteriorNul(pin) \/ HasNonAscii(pin) \/ TooLong(pin)) =>
              /\ ~pout.res.ok
              /\ pout.res.err \in {"NotCStr", "NotAscii", "TooLarge"}
        /\ pout.res.ok =>
              /\ bytes_is_ascii(pout.res.bytes)
              /\ \A i \in 1..Len(pout.res.bytes) : pout.res.bytes[i] # NUL
              /\ Len(pout.res.bytes) <= MAX_SIZE
              /\ pout.res.bytes = BeforeNul(pin)

\* C5 witness: from_bytes_with_nul has rejected, as TooLarge, an ASCII C string
\* of 256 bytes before its NUL.
C5_Witness ==
    /\ pout.ctor = "from_bytes_with_nul"
    /\ IsCStrWithNul(pin)
    /\ ~HasNonAscii(pin)
    /\ Len(BeforeNul(pin)) = MAX_SIZE + 1
    /\ pout.res.err = "TooLarge"

(***************************************************************************)
(* core/src/io.rs: the error codes                                          *)
(***************************************************************************)
OK == 0
IO == -5
CORRUPTION == -84
NO_SUCH_ENTRY == -2
ENTRY_ALREADY_EXISTED == -17
PATH_NOT_DIR == -20
PATH_IS_DIR == -21
DIR_NOT_EMPTY == -39
BAD_FILE_DESCRIPTOR == -9
INVALID == -22
NO_SPACE == -28
NO_ATTRIBUTE == -61

(***************************************************************************)
(* Values of the file-system model.  A name is a byte string, a location    *)
(* is the sequence of names from the root, a tree maps the locations that   *)
(* exist to their node.                                                     *)
(***************************************************************************)
MaxNames == 2
MaxDepth == 2
MaxLen == 2
BLOCK_COUNT == 8
INLINE_MAX == 1
BLOCK_DATA == 2

LETTER_B == 98
DOT == 46

NamePool == << <<LETTER_A>>, <<LETTER_B>>, <<LETTER_A, LETTER_B>>, <<LETTER_B, LETTER_A>> >>
Names == {NamePool[i] : i \in 1..(IF MaxNames < Len(NamePool) THEN MaxNames ELSE Len(NamePool))}

\* The one element of a set of one: binds a value that is used several times
The(S) == CHOOSE x \in S : TRUE
Min(S) == CHOOSE x \in S : \A y \in S : x <= y
Max(S) == CHOOSE x \in S : \A y \in S : y <= x

Root == <<>>
Locs == UNION {[1..n -> Names] : n \in 0..MaxDepth}
Parent(p) == SubSeq(p, 1, Len(p) - 1)
Leaf(p) == p[Len(p)]
IsPrefix(p, q) == Len(p) <= Len(q) /\ SubSeq(q, 1, Len(p)) = p

DataBytes == {0, 1}
Datas == UNION {[1..n -> DataBytes] : n \in 0..MaxLen}

AttrIds == {37, 255}
NoAttr == [set |-> FALSE, data |-> <<>>]
NoAttrs == [i \in AttrIds |-> NoAttr]
DirNode == [type |-> "dir", data |-> <<>>, attrs |-> NoAttrs]
FileNode(d) == [type |-> "file", data |-> d, attrs |-> NoAttrs]
EmptyTree == [p \in {Root} |-> DirNode]

\* Path::cmp_str on the bytes of two paths: the comparison of the two CStr,
\* byte by byte, then by length.
Path_cmp_str(this, other) ==
    LET l == IF Len(this) < Len(other) THEN Len(this) ELSE Len(other)
        diff == {i \in 1..l : this[i] # other[i]}
    IN  IF diff # {}
        THEN IF this[Min(diff)] < other[Min(diff)] THEN "Less" ELSE "Greater"
        ELSE IF Len(this) < Len(other) THEN "Less"
        ELSE IF Len(this) > Len(other) THEN "Greater"
        ELSE "Equal"

\* Path::cmp_lfs with the lengths compared the other way round.
cmp_lfs_shorter_first(this, other) ==
    LET min_len == IF Len(this) < Len(other) THEN Len(this) ELSE Len(other)
        diff == {i \in 1..min_len : this[i] # other[i]}
    IN  IF diff # {}
        THEN IF this[Min(diff)] < other[Min(diff)] THEN "Less" ELSE "Greater"
        ELSE IF Len(this) < Len(other) THEN "Less"
        ELSE IF Len(this) > Len(other) THEN "Greater"
        ELSE "Equal"

\* Path::cmp_lfs on the bytes of two names
cmp_lfs(this, other) ==
    LET min_len == IF Len(this) < Len(other) THEN Len(this) ELSE Len(other)
        diff == {i \in 1..min_len : this[i] # other[i]}
    IN  IF diff # {}
        THEN IF this[Min(diff)] < other[Min(diff)] THEN "Less" ELSE "Greater"
        ELSE IF Len(other) < Len(this) THEN "Less"
        ELSE IF Len(other) > Len(this) THEN "Greater"
        ELSE "Equal"

\* The names bound in directory d, and the same in the order of their ids.
ChildNames(t, d) == {Leaf(p) : p \in {q \in DOMAIN t : Len(q) = Len(d) + 1 /\ Parent(q) = d}}
\* The order of the names in a directory, lfs_dir_find_match: how the name
\* disk of an entry compares with the name looked for.  The bytes are
\* compared over the common length, then the longer name comes first.
lfs_dir_find_match_shorter_first(name, disk) ==
    LET diff == IF Len(name) < Len(disk) THEN Len(name) ELSE Len(disk)
        differ == {i \in 1..diff : disk[i] # name[i]}
    IN  IF differ # {}
        THEN IF disk[Min(differ)] < name[Min(differ)] THEN "LT" ELSE "GT"
        ELSE IF Len(name) = Len(disk) THEN "EQ"
        ELSE IF Len(name) < Len(disk) THEN "GT" ELSE "LT"
lfs_dir_find_match(name, disk) ==
    LET diff == IF Len(name) < Len(disk) THEN Len(name) ELSE Len(disk)
        differ == {i \in 1..diff : disk[i] # name[i]}
    IN  IF differ # {}
        THEN IF disk[Min(differ)] < name[Min(differ)] THEN "LT" ELSE "GT"
        ELSE IF Len(name) = Len(disk) THEN "EQ"
        ELSE IF Len(name) < Len(disk) THEN "LT" ELSE "GT"
Rank(S, n) == Cardinality({m \in S : lfs_dir_find_match(n, m) = "LT"})
SortNames(S) == [i \in 1..Cardinality(S) |-> CHOOSE n \in S : Rank(S, n) = i - 1]
DirList(t, d) == SortNames(ChildNames(t, d))
\* the id a name has, or would get, in directory d
IdOf(t, d, n) == Rank(ChildNames(t, d) \ {n}, n)

\* Blocks in use: the root pair, one pair per directory, the data blocks of
\* every file that is not inline.
DataBlocks(n) == IF n <= INLINE_MAX THEN 0 ELSE (n + BLOCK_DATA - 1) \div BLOCK_DATA
RECURSIVE SumBlocks(_, _)
SumBlocks(t, S) ==
    IF S = {} THEN 0
    ELSE LET p == CHOOSE q \in S : TRUE
         IN  (IF t[p].type = "dir" THEN 2 ELSE DataBlocks(Len(t[p].data)))
             + SumBlocks(t, S \ {p})
BlocksUsed(t) == SumBlocks(t, DOMAIN t)

\* The walk of a location from the root: every name must be bound, and every
\* name but the last must be bound to a directory.
lfs_dir_find(t, p) ==
    LET bad == {i \in 1..Len(p) :
                   \/ SubSeq(p, 1, i) \notin DOMAIN t
                   \/ (i < Len(p) /\ t[SubSeq(p, 1, i)].type # "dir")}
    IN  IF bad = {} THEN OK
        ELSE IF SubSeq(p, 1, Min(bad)) \notin DOMAIN t THEN NO_SUCH_ENTRY
        ELSE PATH_NOT_DIR

\* only the last name of p is unbound
LastMissing(t, p) ==
    /\ Len(p) >= 1
    /\ p \notin DOMAIN t
    /\ Parent(p) \in DOMAIN t
    /\ t[Parent(p)].type = "dir"

Bind(t, p, node) == [q \in (DOMAIN t) \cup {p} |-> IF q = p THEN node ELSE t[q]]
Unbind(t, S) == [q \in (DOMAIN t) \ S |-> t[q]]
Subtree(t, p) == {q \in DOMAIN t : IsPrefix(p, q)}

(***************************************************************************)
(* The littlefs backend, the functions ll::lfs_... .  Its state is         *)
(*   formatted, tree  what the storage holds: the committed tree            *)
(*   mounted          an lfs_t is mounted on the storage                    *)
(*   mlist            the open files and directories, newest first          *)
(*   badclose         a close was called on a handle that is not in mlist   *)
(* Every operation returns its return code rc and the state after it.       *)
(***************************************************************************)
BlankFs ==
    [formatted |-> FALSE, tree |-> EmptyTree, mounted |-> FALSE, mlist |-> <<>>,
     badclose |-> FALSE]

\* An open handle: attached to directory dir; a file is the entry with
\* index id of that directory, a directory iterator is about to read the
\* entry with index id and has position pos (0 before ".", 1 before "..").
FileHandle(hid, dir, id, flags, data, dirty) ==
    [hid |-> hid, type |-> "file", dir |-> dir, id |-> id, pos |-> 0,
     flags |-> flags, data |-> data, dirty |-> dirty, erred |-> FALSE, alive |-> TRUE]
DirHandle(hid, dir) ==
    [hid |-> hid, type |-> "dir", dir |-> dir, id |-> 0, pos |-> 0,
     flags |-> {}, data |-> <<>>, dirty |-> FALSE, erred |-> FALSE, alive |-> TRUE]

Hids(f) == {f.mlist[i].hid : i \in 1..Len(f.mlist)}
NewHid(f) == IF Hids(f) = {} THEN 1 ELSE Max(Hids(f)) + 1
HandleOf(f, hid) == f.mlist[CHOOSE i \in 1..Len(f.mlist) : f.mlist[i].hid = hid]
SetHandle(f, h) ==
    [f EXCEPT !.mlist = [i \in 1..Len(f.mlist) |->
                            IF f.mlist[i].hid = h.hid THEN h ELSE f.mlist[i]]]
RECURSIVE DropHandle(_, _)
DropHandle(ml, hid) ==
    IF ml = <<>> THEN <<>>
    ELSE IF Head(ml).hid = hid THEN Tail(ml)
    ELSE <<Head(ml)>> \o DropHandle(Tail(ml), hid)

\* The location of the entry an open file is attached to.
HandleLoc(t, h) == h.dir \o <<DirList(t, h.dir)[h.id + 1]>>

\* What a commit to directory d does to the open handles attached to d:
\* an entry with index k was created ...
FixCreate(ml, d, k) ==
    [i \in 1..Len(ml) |->
        IF ml[i].alive /\ ml[i].dir = d /\ ml[i].id >= k
        THEN [ml[i] EXCEPT !.id = @ + 1,
                           !.pos = IF ml[i].type = "dir" THEN @ + 1 ELSE @]
        ELSE ml[i]]
\* ... or the entry with index k was deleted, and no handle is re-synchronized
FixDelete_nosync(ml, d, k) == ml

\* ... or the entry with index k was deleted.
FixDelete(ml, d, k) ==
    [i \in 1..Len(ml) |->
        IF ml[i].alive /\ ml[i].dir = d /\ ml[i].id = k
        THEN [ml[i] EXCEPT !.alive = FALSE]
        ELSE IF ml[i].alive /\ ml[i].dir = d /\ ml[i].id > k
        THEN [ml[i] EXCEPT !.id = @ - 1,
                           !.pos = IF ml[i].type = "dir" THEN @ - 1 ELSE @]
        ELSE ml[i]]
\* Handles attached to a directory that was removed or replaced.
FixGone(ml, d) ==
    [i \in 1..Len(ml) |->
        IF ml[i].dir = d THEN [ml[i] EXCEPT !.alive = FALSE] ELSE ml[i]]
\* Handles attached to directories below old follow a rename of old to new.
FixMoved(ml, old, new) ==
    [i \in 1..Len(ml) |->
        IF IsPrefix(old, ml[i].dir)
        THEN [ml[i] EXCEPT !.dir = new \o SubSeq(@, Len(old) + 1, Len(@))]
        ELSE ml[i]]

lfs_format(f) ==
    [rc |-> OK, fs |-> [BlankFs EXCEPT !.formatted = TRUE]]

lfs_mount(f) ==
    IF f.formatted
    THEN [rc |-> OK, fs |-> [f EXCEPT !.mounted = TRUE, !.mlist = <<>>, !.badclose = FALSE]]
    ELSE [rc |-> CORRUPTION, fs |-> f]

lfs_fs_size(f) == [rc |-> BlocksUsed(f.tree), fs |-> f]

lfs_mkdir(f, p) ==
    LET t == f.tree
    IN  IF Len(p) = 0 \/ lfs_dir_find(t, p) = OK THEN [rc |-> ENTRY_ALREADY_EXISTED, fs |-> f]
        ELSE IF ~LastMissing(t, p) THEN [rc |-> lfs_dir_find(t, p), fs |-> f]
        ELSE IF BlocksUsed(t) + 2 > BLOCK_COUNT THEN [rc |-> NO_SPACE, fs |-> f]
        ELSE [rc |-> OK,
              fs |-> [f EXCEPT !.tree = Bind(t, p, DirNode),
                               !.mlist = FixCreate(@, Parent(p), IdOf(t, Parent(p), Leaf(p)))]]

lfs_remove(f, p) ==
    LET t == f.tree
    IN  IF lfs_dir_find(t, p) # OK THEN [rc |-> lfs_dir_find(t, p), fs |-> f]
        ELSE IF Len(p) = 0 THEN [rc |-> INVALID, fs |-> f]
        ELSE IF t[p].type = "dir" /\ ChildNames(t, p) # {} THEN [rc |-> DIR_NOT_EMPTY, fs |-> f]
        ELSE [rc |-> OK,
              fs |-> [f EXCEPT !.tree = Unbind(t, {p}),
                               !.mlist = FixGone(FixDelete(@, Parent(p), IdOf(t, Parent(p), Leaf(p))), p)]]

lfs_stat(f, p) ==
    LET t == f.tree
    IN  IF lfs_dir_find(t, p) # OK
        THEN [rc |-> lfs_dir_find(t, p), fs |-> f, info |-> [type |-> "none", size |-> 0, name |-> <<>>]]
        ELSE [rc |-> OK, fs |-> f,
              info |-> [type |-> t[p].type, size |-> Len(t[p].data),
                        name |-> IF Len(p) = 0 THEN <<SLASH>> ELSE Leaf(p)]]

\* The tree after the subtree at old has been moved to new, for new not
\* below old.
MoveTree(t, old, new) ==
    LET S == Subtree(t, old)
        t1 == Unbind(t, S \cup Subtree(t, new))
        To(q) == new \o SubSeq(q, Len(old) + 1, Len(q))
    IN  [q \in (DOMAIN t1) \cup {To(s) : s \in S} |->
            IF q \in DOMAIN t1 THEN t1[q]
            ELSE t[CHOOSE s \in S : To(s) = q]]

lfs_rename(f, old, new) ==
    LET t == f.tree
        ro == lfs_dir_find(t, old)
        rn == lfs_dir_find(t, new)
        oldid == IdOf(t, Parent(old), Leaf(old))
        newid == IdOf(t, Parent(new), Leaf(new))
        samepair == Parent(old) = Parent(new)
        newoldid == IF samepair /\ rn # OK /\ newid <= oldid THEN oldid + 1 ELSE oldid
        ml1 == IF rn = OK THEN FixGone(FixDelete(f.mlist, Parent(new), newid), new)
               ELSE f.mlist
        ml2 == FixCreate(ml1, Parent(new), newid)
        ml3 == FixDelete(ml2, Parent(old), newoldid)
    IN  IF ro # OK THEN [rc |-> ro, fs |-> f]
        ELSE IF Len(old) = 0 THEN [rc |-> INVALID, fs |-> f]
        ELSE IF rn # OK /\ ~LastMissing(t, new) THEN [rc |-> rn, fs |-> f]
        ELSE IF rn = OK /\ Len(new) = 0 THEN [rc |-> INVALID, fs |-> f]
        ELSE IF rn = OK /\ t[new].type # t[old].type
        THEN [rc |-> IF t[new].type = "dir" THEN PATH_IS_DIR ELSE PATH_NOT_DIR, fs |-> f]
        ELSE IF rn = OK /\ new = old THEN [rc |-> OK, fs |-> f]
        ELSE IF rn = OK /\ t[new].type = "dir" /\ ChildNames(t, new) # {}
        THEN [rc |-> DIR_NOT_EMPTY, fs |-> f]
        ELSE [rc |-> OK,
              fs |-> [f EXCEPT !.tree = MoveTree(t, old, new),
                               !.mlist = FixMoved(ml3, old, new)]]

\* User attributes.  lfs_getattr reports the size of the attribute and fills
\* the buffer with as much of it as fits.
ATTR_MAX == 1022
Take(s, n) == SubSeq(s, 1, IF n < Len(s) THEN n ELSE Len(s))

lfs_getattr(f, p, id, bufsize) ==
    LET t == f.tree
    IN  IF lfs_dir_find(t, p) # OK THEN [rc |-> lfs_dir_find(t, p), fs |-> f, buf |-> <<>>]
        ELSE IF ~t[p].attrs[id].set THEN [rc |-> NO_ATTRIBUTE, fs |-> f, buf |-> <<>>]
        ELSE [rc |-> Len(t[p].attrs[id].data), fs |-> f,
              buf |-> Take(t[p].attrs[id].data, bufsize)]

lfs_setattr(f, p, id, data) ==
    LET t == f.tree
    IN  IF Len(data) > ATTR_MAX THEN [rc |-> NO_SPACE, fs |-> f]
        ELSE IF lfs_dir_find(t, p) # OK THEN [rc |-> lfs_dir_find(t, p), fs |-> f]
        ELSE [rc |-> OK,
              fs |-> [f EXCEPT !.tree[p].attrs[id] = [set |-> TRUE, data |-> data]]]

lfs_removeattr(f, p, id) ==
    LET t == f.tree
    IN  IF lfs_dir_find(t, p) # OK THEN [rc |-> lfs_dir_find(t, p), fs |-> f]
        ELSE [rc |-> OK, fs |-> [f EXCEPT !.tree[p].attrs[id] = NoAttr]]

\* Files.  Opening with CREATE commits the new, empty entry at once; the
\* contents written through a handle are committed by sync and close.
lfs_file_opencfg(f, hid, p, flags) ==
    LET t == f.tree
        r == lfs_dir_find(t, p)
        id == IdOf(t, Parent(p), Leaf(p))
    IN  IF r # OK /\ ~LastMissing(t, p) THEN [rc |-> r, fs |-> f]
        ELSE IF r # OK /\ "CREATE" \notin flags THEN [rc |-> NO_SUCH_ENTRY, fs |-> f]
        ELSE IF r # OK
        THEN [rc |-> OK,
              fs |-> [f EXCEPT !.tree = Bind(t, p, FileNode(<<>>)),
                               !.mlist = <<FileHandle(hid, Parent(p), id, flags, <<>>, FALSE)>>
                                            \o FixCreate(@, Parent(p), id)]]
        ELSE IF "EXCL" \in flags THEN [rc |-> ENTRY_ALREADY_EXISTED, fs |-> f]
        ELSE IF t[p].type = "dir" THEN [rc |-> PATH_IS_DIR, fs |-> f]
        ELSE IF "TRUNCATE" \in flags
        THEN [rc |-> OK,
              fs |-> [f EXCEPT !.mlist = <<FileHandle(hid, Parent(p), id, flags, <<>>,
                                                      Len(t[p].data) # 0)>> \o @]]
        ELSE [rc |-> OK,
              fs |-> [f EXCEPT !.mlist = <<FileHandle(hid, Parent(p), id, flags,
                                                      t[p].data, FALSE)>> \o @]]

lfs_file_write(f, hid, buf) ==
    LET h == HandleOf(f, hid)
        pos == IF "APPEND" \in h.flags THEN Len(h.data) ELSE h.pos
        padded == IF pos > Len(h.data) THEN h.data \o Rep(0, pos - Len(h.data)) ELSE h.data
        data == SubSeq(padded, 1, pos) \o buf \o SubSeq(padded, pos + Len(buf) + 1, Len(padded))
    IN  IF "WRITE" \notin h.flags THEN [rc |-> BAD_FILE_DESCRIPTOR, fs |-> f]
        ELSE IF BlocksUsed(f.tree) + DataBlocks(Len(data)) > BLOCK_COUNT
        THEN [rc |-> NO_SPACE, fs |-> SetHandle(f, [h EXCEPT !.erred = TRUE])]
        ELSE [rc |-> Len(buf),
              fs |-> SetHandle(f, [h EXCEPT !.pos = pos + Len(buf), !.data = data,
                                            !.dirty = @ \/ Len(buf) > 0, !.erred = FALSE])]

lfs_file_read(f, hid, n) ==
    LET h == HandleOf(f, hid)
        avail == IF Len(h.data) > h.pos THEN Len(h.data) - h.pos ELSE 0
        k == IF n < avail THEN n ELSE avail
    IN  IF "READ" \notin h.flags THEN [rc |-> BAD_FILE_DESCRIPTOR, fs |-> f, buf |-> <<>>]
        ELSE [rc |-> k, fs |-> SetHandle(f, [h EXCEPT !.pos = @ + k]),
              buf |-> SubSeq(h.data, h.pos + 1, h.pos + k)]

lfs_file_sync(f, hid) ==
    LET h == HandleOf(f, hid)
    IN  IF h.erred \/ ~h.dirty \/ ~h.alive THEN [rc |-> OK, fs |-> f]
        ELSE [rc |-> OK,
              fs |-> SetHandle([f EXCEPT !.tree[HandleLoc(f.tree, h)].data = h.data],
                               [h EXCEPT !.dirty = FALSE])]

lfs_file_close(f, hid) ==
    IF hid \notin Hids(f)
    THEN [rc |-> BAD_FILE_DESCRIPTOR, fs |-> [f EXCEPT !.badclose = TRUE]]
    ELSE LET s == lfs_file_sync(f, hid)
         IN  [rc |-> s.rc, fs |-> [s.fs EXCEPT !.mlist = DropHandle(@, hid)]]

\* The file gets size bytes: its first size bytes, or its bytes followed by
\* zeros.  The position stays.
lfs_file_truncate(f, hid, size) ==
    LET h == HandleOf(f, hid)
        data == IF size <= Len(h.data) THEN SubSeq(h.data, 1, size)
                ELSE h.data \o Rep(0, size - Len(h.data))
    IN  IF "WRITE" \notin h.flags THEN [rc |-> BAD_FILE_DESCRIPTOR, fs |-> f]
        ELSE IF BlocksUsed(f.tree) + DataBlocks(size) > BLOCK_COUNT
        THEN [rc |-> NO_SPACE, fs |-> SetHandle(f, [h EXCEPT !.erred = TRUE])]
        ELSE [rc |-> OK,
              fs |-> SetHandle(f, [h EXCEPT !.data = data, !.dirty = @ \/ data # h.data])]

\* whence: 0 from the start, 1 from the position, 2 from the end
lfs_file_seek(f, hid, off, whence) ==
    LET h == HandleOf(f, hid)
        npos == IF whence = 0 THEN off
                ELSE IF whence = 1 THEN h.pos + off
                ELSE Len(h.data) + off
    IN  IF npos < 0 THEN [rc |-> INVALID, fs |-> f]
        ELSE [rc |-> npos, fs |-> SetHandle(f, [h EXCEPT !.pos = npos])]

lfs_file_size(f, hid) == [rc |-> Len(HandleOf(f, hid).data), fs |-> f]

\* Directory iterators.
NoInfo == [type |-> "none", size |-> 0, name |-> <<>>]

lfs_dir_open(f, hid, p) ==
    LET t == f.tree
    IN  IF lfs_dir_find(t, p) # OK THEN [rc |-> lfs_dir_find(t, p), fs |-> f]
        ELSE IF t[p].type # "dir" THEN [rc |-> PATH_NOT_DIR, fs |-> f]
        ELSE [rc |-> OK, fs |-> [f EXCEPT !.mlist = <<DirHandle(hid, p)>> \o @]]

lfs_dir_read(f, hid) ==
    LET h == HandleOf(f, hid)
        list == DirList(f.tree, h.dir)
    IN  IF ~h.alive THEN [rc |-> CORRUPTION, fs |-> f, info |-> NoInfo]
        ELSE IF h.pos = 0
        THEN [rc |-> 1, fs |-> SetHandle(f, [h EXCEPT !.pos = 1]),
              info |-> [type |-> "dir", size |-> 0, name |-> <<DOT>>]]
        ELSE IF h.pos = 1
        THEN [rc |-> 1, fs |-> SetHandle(f, [h EXCEPT !.pos = 2]),
              info |-> [type |-> "dir", size |-> 0, name |-> <<DOT, DOT>>]]
        ELSE IF h.id >= Len(list) THEN [rc |-> 0, fs |-> f, info |-> NoInfo]
        ELSE LET n == f.tree[h.dir \o <<list[h.id + 1]>>]
             IN  [rc |-> 1, fs |-> SetHandle(f, [h EXCEPT !.pos = @ + 1, !.id = @ + 1]),
                  info |-> [type |-> n.type, size |-> Len(n.data), name |-> list[h.id + 1]]]

lfs_dir_close(f, hid) ==
    [rc |-> OK, fs |-> [f EXCEPT !.mlist = DropHandle(@, hid),
                                 !.badclose = @ \/ hid \notin Hids(f)]]

\* The position of a directory handle: the number of entries read.
lfs_dir_tell(f, hid) == [rc |-> HandleOf(f, hid).pos, fs |-> f]

lfs_dir_rewind(f, hid) ==
    LET h == HandleOf(f, hid)
    IN  IF ~h.alive THEN [rc |-> CORRUPTION, fs |-> f]
        ELSE [rc |-> OK, fs |-> SetHandle(f, [h EXCEPT !.pos = 0, !.id = 0])]

\* The handle is rewound and moved off entries forward; there must be as
\* many.
lfs_dir_seek(f, hid, off) ==
    LET h == HandleOf(f, hid)
        r == lfs_dir_rewind(f, hid)
    IN  IF r.rc # OK THEN r
        ELSE IF off > 2 + Len(DirList(f.tree, h.dir))
        THEN [rc |-> INVALID,
              fs |-> SetHandle(f, [h EXCEPT !.pos = 2 + Len(DirList(f.tree, h.dir)),
                                            !.id = Len(DirList(f.tree, h.dir))])]
        ELSE [rc |-> OK,
              fs |-> SetHandle(f, [h EXCEPT !.pos = off, !.id = Max({off - 2, 0})])]

(***************************************************************************)
(* src/src/fs.rs: the Rust front end.  A Result is Ok(v) or Err(e); every   *)
(* front-end operation returns its Result res and the backend state fs      *)
(* after it.                                                                *)
(***************************************************************************)
Ok(v) == [ok |-> TRUE, v |-> v, e |-> OK]
Err(e) == [ok |-> FALSE, v |-> "none", e |-> e]
Unit == "unit"

\* Option<Error>.  An Error is held as its code, which Error::code returns.
NoError == [some |-> FALSE, code |-> 0]
SomeError(code) == [some |-> TRUE, code |-> code]
Error_code(self) == self

\* Error::new that takes only the positive codes for success
Error_new_zero_is_error(code) == IF code > 0 THEN NoError ELSE SomeError(code)

\* Error::new
Error_new(code) == IF code >= 0 THEN NoError ELSE SomeError(code)

\* fn result_from: if let Some(error) = Error::new(error_code)
result_from(return_value, error_code) ==
    IF Error_new(error_code).some THEN Err(Error_new(error_code).code) ELSE Ok(return_value)

\* fn u32_result: u32::try_from(return_value) is Ok for the values from 0,
\* and the c_int of a negative i32 is the same number; the unwrap of
\* Error::new is of Some for a negative code
u32_result(return_value) ==
    IF return_value >= 0 THEN Ok(return_value) ELSE Err(Error_new(return_value).code)

\* The names of a path, as the backend walks them: the runs of bytes
\* between slashes.
RECURSIVE Split(_)
Split(s) ==
    IF s = <<>> THEN <<>>
    ELSE IF Head(s) = SLASH THEN Split(Tail(s))
    ELSE LET slashes == {i \in 1..Len(s) : s[i] = SLASH}
             k == IF slashes = {} THEN Len(s) + 1 ELSE Min(slashes)
         IN  <<SubSeq(s, 1, k - 1)>> \o Split(SubSeq(s, k, Len(s)))

\* The absolute path of a location, as the byte string path!("/a/b").
RECURSIVE PathStr(_)
PathStr(loc) ==
    IF loc = <<>> THEN <<SLASH>>
    ELSE IF Len(loc) = 1 THEN <<SLASH>> \o loc[1]
    ELSE PathStr(Parent(loc)) \o <<SLASH>> \o Leaf(loc)

Paths == {PathStr(l) : l \in Locs}

\* PathBuf::push, on the bytes before the NUL
PathBuf_push(self, path) ==
    IF path = <<>> THEN self
    ELSE IF path = <<SLASH>> THEN <<SLASH>>
    ELSE LET needs_separator == Len(self) > 0 /\ self[Len(self)] # SLASH
         IN  IF needs_separator THEN self \o <<SLASH>> \o path ELSE self \o path

\* Path::join
Path_join(self, path) == PathBuf_push(self, path)

\* Filesystem::format
Filesystem_format(f) ==
    LET r == lfs_format(f) IN [res |-> result_from(Unit, r.rc), fs |-> r.fs]

\* Filesystem::mount with raw_mount
Filesystem_mount(f) ==
    LET r == lfs_mount(f) IN [res |-> result_from(Unit, r.rc), fs |-> r.fs]

\* Filesystem::available_blocks without the subtraction from total_blocks
Filesystem_available_blocks_used(f) == u32_result(lfs_fs_size(f).rc)

\* Filesystem::available_blocks, with total_blocks
Filesystem_available_blocks(f) ==
    LET r == u32_result(lfs_fs_size(f).rc)
    IN  IF r.ok THEN Ok(IF BLOCK_COUNT > r.v THEN BLOCK_COUNT - r.v ELSE 0) ELSE r

\* Filesystem::remove that drops the return code
Filesystem_remove_unchecked(f, path) ==
    LET r == lfs_remove(f, Split(path)) IN [res |-> Ok(Unit), fs |-> r.fs]

\* Filesystem::remove
Filesystem_remove(f, path) ==
    LET r == lfs_remove(f, Split(path)) IN [res |-> result_from(Unit, r.rc), fs |-> r.fs]

\* Filesystem::remove_dir
Filesystem_remove_dir(f, path) == Filesystem_remove(f, path)

\* Filesystem::rename with the two paths exchanged
Filesystem_rename_swapped(f, from, to) ==
    LET r == lfs_rename(f, Split(to), Split(from))
    IN  [res |-> result_from(Unit, r.rc), fs |-> r.fs]

\* Filesystem::rename
Filesystem_rename(f, from, to) ==
    LET r == lfs_rename(f, Split(from), Split(to))
    IN  [res |-> result_from(Unit, r.rc), fs |-> r.fs]

\* Filesystem::metadata
Filesystem_metadata(f, path) ==
    LET r == lfs_stat(f, Split(path))
        m == result_from(Unit, r.rc)
    IN  [res |-> IF m.ok THEN Ok([file_type |-> r.info.type, len |-> r.info.size]) ELSE m,
         fs |-> r.fs]

\* Filesystem::exists
Filesystem_exists(f, path) == Filesystem_metadata(f, path).res.ok

\* Filesystem::create_dir
Filesystem_create_dir(f, path) ==
    LET r == lfs_mkdir(f, Split(path)) IN [res |-> result_from(Unit, r.rc), fs |-> r.fs]

\* Attribute::new(buffer, total_size): the filled part of the buffer and the
\* size the backend reported.
Attribute_new(buffer, buflen, total_size) ==
    [data |-> Take(buffer, IF total_size < buflen THEN total_size ELSE buflen),
     total_size |-> total_size]

\* Option<Attribute>
None == [some |-> FALSE, data |-> <<>>, total_size |-> 0]
Some(a) == [some |-> TRUE, data |-> a.data, total_size |-> a.total_size]

\* Filesystem::attribute that passes the NO_ATTRIBUTE error on
Filesystem_attribute_noattr(f, path, id, buflen) ==
    LET r == lfs_getattr(f, Split(path), id, buflen)
        u == u32_result(r.rc)
    IN  [res |-> IF u.ok THEN Ok(Some(Attribute_new(r.buf, buflen, u.v))) ELSE u,
         fs |-> r.fs]

\* Filesystem::attribute that reports the number of bytes put into the
\* buffer as the size of the attribute
Filesystem_attribute_filled(f, path, id, buflen) ==
    LET r == lfs_getattr(f, Split(path), id, buflen)
        u == u32_result(r.rc)
    IN  [res |-> IF u.ok THEN Ok(Some(Attribute_new(r.buf, buflen, Len(r.buf))))
                 ELSE IF u.e = NO_ATTRIBUTE THEN Ok(None)
                 ELSE u,
         fs |-> r.fs]

\* Filesystem::attribute
Filesystem_attribute(f, path, id, buflen) ==
    LET r == lfs_getattr(f, Split(path), id, buflen)
        u == u32_result(r.rc)
    IN  [res |-> IF u.ok THEN Ok(Some(Attribute_new(r.buf, buflen, u.v)))
                 ELSE IF u.e = NO_ATTRIBUTE THEN Ok(None)
                 ELSE u,
         fs |-> r.fs]

\* Filesystem::remove_attribute
Filesystem_remove_attribute(f, path, id) ==
    LET r == lfs_removeattr(f, Split(path), id)
    IN  [res |-> result_from(Unit, r.rc), fs |-> r.fs]

\* Filesystem::set_attribute that drops the return code
Filesystem_set_attribute_unchecked(f, path, id, data) ==
    LET r == lfs_setattr(f, Split(path), id, data)
    IN  [res |-> Ok(Unit), fs |-> r.fs]

\* Filesystem::set_attribute
Filesystem_set_attribute(f, path, id, data) ==
    LET r == lfs_setattr(f, Split(path), id, data)
    IN  [res |-> result_from(Unit, r.rc), fs |-> r.fs]

\* FileOpenFlags, as the set of the flags that are set
FileOpenFlags == {"READ", "WRITE", "CREATE", "EXCL", "TRUNCATE", "APPEND"}

\* OpenOptions::open
OpenOptions_open(f, hid, path, flags) ==
    LET r == lfs_file_opencfg(f, hid, Split(path), flags)
    IN  [res |-> result_from(hid, r.rc), fs |-> r.fs]

\* File::close that takes the handle off the list without the sync
File_close_nosync(f, hid) ==
    [res |-> Ok(Unit), fs |-> [f EXCEPT !.mlist = DropHandle(@, hid)]]

\* File::close that drops the return code
File_close_unchecked(f, hid) ==
    LET r == lfs_file_close(f, hid) IN [res |-> Ok(Unit), fs |-> r.fs]

\* File::close
File_close(f, hid) ==
    LET r == lfs_file_close(f, hid) IN [res |-> result_from(Unit, r.rc), fs |-> r.fs]

\* File::sync
File_sync(f, hid) ==
    LET r == lfs_file_sync(f, hid) IN [res |-> result_from(Unit, r.rc), fs |-> r.fs]

\* impl io::Read for File: read
File_read(f, hid, n) ==
    LET r == lfs_file_read(f, hid, n)
    IN  [res |-> u32_result(r.rc), fs |-> r.fs, buf |-> r.buf]

\* impl io::Write for File: write
File_write(f, hid, buf) ==
    LET r == lfs_file_write(f, hid, buf) IN [res |-> u32_result(r.rc), fs |-> r.fs]

\* io::Write::write_all
RECURSIVE write_all(_, _, _)
write_all(f, hid, buf) ==
    IF buf = <<>> THEN [res |-> Ok(Unit), fs |-> f]
    ELSE LET w == File_write(f, hid, buf)
         IN  IF ~w.res.ok THEN [res |-> w.res, fs |-> w.fs]
             ELSE IF w.res.v = 0 THEN [res |-> Err(IO), fs |-> w.fs]
             ELSE write_all(w.fs, hid, SubSeq(buf, w.res.v + 1, Len(buf)))

\* File::read_to_end into a heapless::Vec of capacity N that holds buf
File_read_to_end_short(f, hid, buf, N) ==
    LET had == Len(buf)
        r == File_read(f, hid, N - had)
    IN  IF ~r.res.ok THEN [res |-> r.res, fs |-> r.fs, buf |-> buf \o Rep(0, N - had)]
        ELSE [res |-> Ok(r.res.v), fs |-> r.fs, buf |-> Take(buf \o r.buf, had + r.res.v - 1)]

File_read_to_end(f, hid, buf, N) ==
    LET had == Len(buf)
        r == File_read(f, hid, N - had)
    IN  IF ~r.res.ok THEN [res |-> r.res, fs |-> r.fs, buf |-> buf \o Rep(0, N - had)]
        ELSE [res |-> Ok(r.res.v), fs |-> r.fs, buf |-> Take(buf \o r.buf, had + r.res.v)]

\* OpenOptions::open_and_then after the callback returned res, when the
\* close is skipped on a callback error
open_and_then_finish_early(f, hid, res) ==
    IF ~res.ok THEN [res |-> res, fs |-> f]
    ELSE LET c == File_close(f, hid)
         IN  [res |-> IF ~c.res.ok THEN c.res ELSE res, fs |-> c.fs]

\* OpenOptions::open_and_then after the callback returned res:
\* unsafe { file.close()? }; res
open_and_then_finish(f, hid, res) ==
    LET c == File_close(f, hid)
    IN  [res |-> IF ~c.res.ok THEN c.res ELSE res, fs |-> c.fs]

\* Filesystem::write with a file opened without truncate(true)
Filesystem_write_notruncate(f, path, contents) ==
    LET hid == NewHid(f)
        o == OpenOptions_open(f, hid, path, {"WRITE", "CREATE"})
        w == write_all(o.fs, hid, contents)
        c == open_and_then_finish(w.fs, hid, w.res)
    IN  IF ~o.res.ok THEN [res |-> o.res, fs |-> o.fs]
        ELSE [res |-> IF c.res.ok THEN Ok(Unit) ELSE c.res, fs |-> c.fs]

\* Filesystem::write: File::create_and_then with write_all as the callback
Filesystem_write(f, path, contents) ==
    LET hid == NewHid(f)
        o == OpenOptions_open(f, hid, path, {"WRITE", "CREATE", "TRUNCATE"})
        w == write_all(o.fs, hid, contents)
        c == open_and_then_finish(w.fs, hid, w.res)
    IN  IF ~o.res.ok THEN [res |-> o.res, fs |-> o.fs]
        ELSE [res |-> IF c.res.ok THEN Ok(Unit) ELSE c.res, fs |-> c.fs]

\* Filesystem::read::<N>: File::open_and_then with read_to_end as the callback
Filesystem_read(f, path, N) ==
    LET hid == NewHid(f)
        o == OpenOptions_open(f, hid, path, {"READ"})
        r == File_read_to_end(o.fs, hid, <<>>, N)
        c == open_and_then_finish(r.fs, hid, r.res)
    IN  IF ~o.res.ok THEN [res |-> o.res, fs |-> o.fs]
        ELSE [res |-> IF c.res.ok THEN Ok(r.buf) ELSE c.res, fs |-> c.fs]

(***************************************************************************)
(* The API calls as actions.  A scoped call is two steps: the call opens    *)
(* its handle and pushes a frame, and the return of its callback closes the *)
(* handle and pops the frame; between the two the callback makes calls of   *)
(* its own.  The outermost frame is that of mount_and_then.                 *)
(***************************************************************************)
Frame(kind, hid, path) ==
    [kind |-> kind, hid |-> hid, path |-> path,
     start |-> {}, yielded |-> <<>>, removed |-> {}, created |-> 0,
     ended |-> FALSE, resumed |-> FALSE, erred |-> FALSE, foreign |-> FALSE,
     changed |-> FALSE, nones |-> 0]
Top == stack[Len(stack)]
Pop == SubSeq(stack, 1, Len(stack) - 1)

Rec(op, path, path2, data, n, res, pre) ==
    [op |-> op, path |-> path, path2 |-> path2, data |-> data, n |-> n,
     res |-> res, pre |-> pre]
NoCall == Rec("none", <<>>, <<>>, <<>>, 0, Ok(Unit), BlankFs)
NoWrite ==
    [valid |-> FALSE, op |-> "none", path |-> <<>>, id |-> 0, data |-> <<>>,
     remounted |-> FALSE, sets |-> {}]

\* One call: the state after it, the record of it, the steps it costs.
CallCost(op, path, path2, data, n, r, cost) ==
    /\ steps >= cost
    /\ steps' = steps - cost
    /\ fs' = r.fs
    /\ last' = Rec(op, path, path2, data, n, r.res, fs)
    /\ wrote' = IF op \in {"write", "set_attribute", "remove_attribute"} /\ r.res.ok
                THEN [valid |-> TRUE, op |-> op, path |-> path, id |-> n, data |-> data,
                      remounted |-> FALSE,
                      sets |-> IF op = "set_attribute" THEN wrote.sets \cup {<<path, n>>}
                               ELSE wrote.sets]
                ELSE IF r.fs.tree # fs.tree \/ r.fs.formatted # fs.formatted
                THEN [NoWrite EXCEPT !.sets = wrote.sets]
                ELSE IF op = "mount" /\ r.res.ok THEN [wrote EXCEPT !.remounted = wrote.valid]
                ELSE wrote
    /\ UNCHANGED <<pathVars, devVars>>
Call(op, path, path2, data, n, r) == CallCost(op, path, path2, data, n, r, 1)

\* What a directory iteration in progress has seen change in its directory
\* when the tree went from t to t2: the names removed, the number of names
\* created, and whether anything else happened than creations, rewrites and
\* the removal of the entry just yielded, whether anything changed at all.
Track(op, t, t2) ==
    [i \in 1..Len(stack) |->
        IF stack[i].kind # "dir" THEN stack[i]
        ELSE LET fr == stack[i]
                 d == Split(fr.path)
                 before == IF d \in DOMAIN t THEN ChildNames(t, d) ELSE {}
                 after == IF d \in DOMAIN t2 THEN ChildNames(t2, d) ELSE {}
                 just == IF fr.yielded = <<>> THEN {}
                         ELSE {fr.yielded[Len(fr.yielded)].file_name}
             IN  [fr EXCEPT !.changed = @ \/ t # t2,
                            !.removed = @ \cup (before \ after),
                            !.created = @ + Cardinality(after \ before),
                            !.foreign = \/ @
                                        \/ ~((before \ after) \subseteq just)
                                        \/ d \notin DOMAIN t2
                                        \/ (op = "rename" /\ t # t2)]]

\* A call on the Filesystem made at mount level or from inside a callback.
FsCall(op, path, path2, data, n, r) ==
    /\ stack # <<>>
    /\ Call(op, path, path2, data, n, r)
    /\ stack' = Track(op, fs.tree, r.fs.tree)

\* Filesystem::format(storage)
Format ==
    /\ stack = <<>>
    /\ Call("format", <<>>, <<>>, <<>>, 0, Filesystem_format(fs))
    /\ UNCHANGED stack

\* Filesystem::mount_and_then up to the call of f
MountAndThen ==
    /\ stack = <<>>
    /\ LET r == Filesystem_mount(fs)
       IN  /\ CallCost("mount", <<>>, <<>>, <<>>, 0, r, 0)
           /\ stack' = IF r.res.ok THEN <<Frame("mount", 0, <<>>)>> ELSE <<>>

\* Filesystem::mount_and_then from the return of f: the Filesystem and its
\* Allocation go out of scope
MountReturn ==
    /\ Len(stack) = 1
    /\ Top.kind = "mount"
    /\ \E res \in {Ok(Unit), Err(IO)} :
          CallCost("mount_and_then", <<>>, <<>>, <<>>, 0,
                   [res |-> res, fs |-> [fs EXCEPT !.mounted = FALSE, !.mlist = <<>>]], 0)
    /\ stack' = <<>>

CreateDir ==
    \E path \in Paths :
        FsCall("create_dir", path, <<>>, <<>>, 0, Filesystem_create_dir(fs, path))

Remove ==
    \E path \in Paths :
        FsCall("remove", path, <<>>, <<>>, 0, Filesystem_remove(fs, path))

RemoveDir ==
    \E path \in Paths :
        FsCall("remove_dir", path, <<>>, <<>>, 0, Filesystem_remove_dir(fs, path))

\* Filesystem::rename; a move of a directory to below itself is not modelled
Rename ==
    \E from \in Paths, to \in Paths :
        /\ (from = to \/ ~IsPrefix(Split(from), Split(to))) = TRUE
        /\ FsCall("rename", from, to, <<>>, 0, Filesystem_rename(fs, from, to))

Write ==
    \E path \in Paths, contents \in Datas :
        FsCall("write", path, <<>>, contents, 0, Filesystem_write(fs, path, contents))

\* Filesystem::read::<N>
ReadCaps == {1, MaxLen}
Read ==
    \E path \in Paths, N \in ReadCaps :
        FsCall("read", path, <<>>, <<>>, N, Filesystem_read(fs, path, N))

(***************************************************************************)
(* Initial trees: what earlier sessions have left on the storage.           *)
(***************************************************************************)
KidChoices == {"none", "dir", "file"}
NoKids == [n \in Names |-> "none"]
TopChoices ==
    {[k |-> "none", d |-> <<>>, kids |-> NoKids]}
    \cup {[k |-> "file", d |-> d, kids |-> NoKids] : d \in {<<>>, Rep(1, MaxLen)}}
    \cup {[k |-> "dir", d |-> <<>>, kids |-> kids] : kids \in [Names -> KidChoices]}
TreeOf(c) ==
    [q \in {Root} \cup {<<n>> : n \in {m \in Names : c[m].k # "none"}}
           \cup {<<n[1], n[2]>> : n \in {m \in Names \X Names :
                                      c[m[1]].k = "dir" /\ c[m[1]].kids[m[2]] # "none"}} |->
        IF Len(q) = 0 THEN DirNode
        ELSE IF Len(q) = 1
        THEN IF c[q[1]].k = "dir" THEN DirNode ELSE FileNode(c[q[1]].d)
        ELSE IF c[q[1]].kids[q[2]] = "dir" THEN DirNode ELSE FileNode(Rep(1, MaxLen))]
InitTrees == {t \in {TreeOf(c) : c \in [Names -> TopChoices]} : BlocksUsed(t) <= BLOCK_COUNT}
Formatted(t) == [BlankFs EXCEPT !.formatted = TRUE, !.tree = t]

FsInit(budget) ==
    /\ DevIdle
    /\ pin = <<>>
    /\ pout = [ctor |-> "none", res |-> PathErr("none")]
    /\ fs \in {BlankFs} \cup {Formatted(t) : t \in InitTrees}
    /\ stack = <<>>
    /\ last = NoCall
    /\ wrote = NoWrite
    /\ steps = budget

(***************************************************************************)
(* SpecFile: whole-file writes and reads among directory changes and        *)
(* remounts.                                                                *)
(***************************************************************************)
FileSteps == 2
FileInit == FsInit(FileSteps)
FileNext ==
    \/ Format
    \/ MountAndThen
    \/ MountReturn
    \/ CreateDir
    \/ Remove
    \/ Write
    \/ Read
SpecFile == FileInit /\ [][FileNext]_vars

\* C2: a read of P into a buffer that can hold B, made after a successful
\* write(P, B) with no change of the tree in between, returns exactly B;
\* the same after the filesystem was unmounted and mounted again.
C2_WriteReadRoundTrip ==
    (/\ last.op = "read"
     /\ wrote.valid
     /\ wrote.op = "write"
     /\ last.path = wrote.path
     /\ Len(wrote.data) <= last.n)
    => (last.res.ok /\ last.res.v = wrote.data)

\* C2 witness: a file too long to be inline was written, the filesystem was
\* mounted again, and the read returned the bytes written.
C2_Witness ==
    /\ last.op = "read"
    /\ wrote.valid
    /\ wrote.op = "write"
    /\ wrote.remounted
    /\ last.path = wrote.path
    /\ Len(wrote.data) > INLINE_MAX
    /\ Len(wrote.data) <= last.n
    /\ last.res.ok
    /\ last.res.v = wrote.data

\* C12: after write(P, B) has returned Ok, P is a file of length |B| whose
\* contents are exactly B, whether P did not exist before or held other
\* contents, longer ones included; no other entry has changed and no handle
\* stays open.
C12_WriteReplaces ==
    (last.op = "write" /\ last.res.ok) =>
        LET t == last.pre.tree
            p == Split(last.path)
            m == Filesystem_metadata(fs, last.path).res
        IN  /\ p \in DOMAIN fs.tree
            /\ fs.tree[p].type = "file"
            /\ fs.tree[p].data = last.data
            /\ m.ok /\ m.v.file_type = "file" /\ m.v.len = Len(last.data)
            /\ DOMAIN fs.tree = DOMAIN t \cup {p}
            /\ \A q \in DOMAIN t \ {p} : fs.tree[q] = t[q]
            /\ fs.mlist = last.pre.mlist

\* C12 witness: a write of fewer bytes to a file that held more.
C12_Witness ==
    /\ last.op = "write"
    /\ last.res.ok
    /\ Split(last.path) \in DOMAIN last.pre.tree
    /\ Len(last.pre.tree[Split(last.path)].data) > Len(last.data)
    /\ Len(last.data) > 0

\* C12 witness: a write to a path that did not exist.
C12_WitnessCreated ==
    /\ last.op = "write"
    /\ last.res.ok
    /\ Split(last.path) \notin DOMAIN last.pre.tree
    /\ last.data # <<>>

\* C12 witness: a write of no bytes to a file that held some.
C12_WitnessEmptied ==
    /\ last.op = "write"
    /\ last.res.ok
    /\ Split(last.path) \in DOMAIN last.pre.tree
    /\ last.pre.tree[Split(last.path)].data # <<>>
    /\ last.data = <<>>

(***************************************************************************)
(* Scoped files and directory iterators                                     *)
(***************************************************************************)
\* The flag sets of File::open, File::create, write_chunk, and of options
\* with append and with create_new.
OptionSets ==
    {{"READ"}, {"WRITE", "CREATE", "TRUNCATE"}, {"READ", "WRITE"},
     {"WRITE", "APPEND"}, {"WRITE", "CREATE", "EXCL"}}
CallbackResults == {Ok(Unit), Err(IO)}
MaxNest == 2
FileFrames == {i \in 1..Len(stack) : stack[i].kind = "file"}
DirFrames == {i \in 1..Len(stack) : stack[i].kind = "dir"}

\* OpenOptions::open_and_then up to the call of f
OpenAndThen ==
    /\ stack # <<>>
    /\ Len(stack) <= MaxNest
    /\ \E path \in Paths, flags \in OptionSets :
          LET hid == NewHid(fs)
              r == OpenOptions_open(fs, hid, path, flags)
          IN  /\ Call("open", path, <<>>, <<>>, hid, r)
              /\ stack' = IF r.res.ok
                          THEN Append(Track("open", fs.tree, r.fs.tree), Frame("file", hid, path))
                          ELSE stack

\* OpenOptions::open_and_then from the return of f
FileReturn ==
    /\ stack # <<>>
    /\ Top.kind = "file"
    /\ \E res \in CallbackResults :
          LET r == open_and_then_finish(fs, Top.hid, res)
          IN  /\ CallCost("open_and_then", Top.path, <<>>, <<>>, Top.hid, r, 0)
              /\ stack' = SubSeq(Track("open_and_then", fs.tree, r.fs.tree), 1, Len(stack) - 1)

\* Calls on a File from inside the callbacks that can reach it
FileWrite ==
    \E i \in FileFrames, buf \in Datas :
        FsCall("file_write", stack[i].path, <<>>, buf, stack[i].hid,
               File_write(fs, stack[i].hid, buf))

FileRead ==
    \E i \in FileFrames, n \in ReadCaps :
        LET r == File_read(fs, stack[i].hid, n)
        IN  FsCall("file_read", stack[i].path, <<>>, <<>>, stack[i].hid,
                   [res |-> IF r.res.ok THEN Ok(r.buf) ELSE r.res, fs |-> r.fs])

FileSync ==
    \E i \in FileFrames :
        FsCall("file_sync", stack[i].path, <<>>, <<>>, stack[i].hid, File_sync(fs, stack[i].hid))

\* Filesystem::read_dir
Filesystem_read_dir(f, hid, path) ==
    LET r == lfs_dir_open(f, hid, Split(path)) IN [res |-> result_from(hid, r.rc), fs |-> r.fs]

\* ReadDir::close
ReadDir_close(f, hid) ==
    LET r == lfs_dir_close(f, hid) IN [res |-> result_from(Unit, r.rc), fs |-> r.fs]

\* Filesystem::read_dir_and_then after the callback returned res, when the
\* close is skipped on a callback error
read_dir_and_then_finish_early(f, hid, res) ==
    IF ~res.ok THEN [res |-> res, fs |-> f]
    ELSE LET c == ReadDir_close(f, hid)
         IN  [res |-> IF ~c.res.ok THEN c.res ELSE res, fs |-> c.fs]

\* Filesystem::read_dir_and_then after the callback returned res:
\* read_dir.close()?; res
read_dir_and_then_finish(f, hid, res) ==
    LET c == ReadDir_close(f, hid)
    IN  [res |-> IF ~c.res.ok THEN c.res ELSE res, fs |-> c.fs]

\* fn metadata(info) and DirEntry::new
DirEntry_new(file_name, info, path) ==
    [file_name |-> file_name, type |-> info.type, size |-> info.size, path |-> path]
NoEntry == [file_name |-> <<>>, type |-> "none", size |-> 0, path |-> <<>>]

\* ReadDir::next: Some(Ok(entry)), None or Some(Err(e))
ReadDir_next_nojoin(f, hid, path) ==
    LET r == lfs_dir_read(f, hid)
    IN  IF r.rc > 0
        THEN [opt |-> "SomeOk", entry |-> DirEntry_new(r.info.name, r.info, r.info.name),
              e |-> OK, fs |-> r.fs]
        ELSE IF r.rc = 0 THEN [opt |-> "None", entry |-> NoEntry, e |-> OK, fs |-> r.fs]
        ELSE [opt |-> "SomeErr", entry |-> NoEntry, e |-> r.rc, fs |-> r.fs]

ReadDir_next(f, hid, path) ==
    LET r == lfs_dir_read(f, hid)
    IN  IF r.rc > 0
        THEN [opt |-> "SomeOk",
              entry |-> DirEntry_new(r.info.name, r.info, Path_join(path, r.info.name)),
              e |-> OK, fs |-> r.fs]
        ELSE IF r.rc = 0 THEN [opt |-> "None", entry |-> NoEntry, e |-> OK, fs |-> r.fs]
        ELSE [opt |-> "SomeErr", entry |-> NoEntry, e |-> r.rc, fs |-> r.fs]

\* Filesystem::read_dir_and_then up to the call of f
ReadDirAndThen ==
    /\ stack # <<>>
    /\ Len(stack) <= MaxNest
    /\ \E path \in Paths :
          LET hid == NewHid(fs)
              r == Filesystem_read_dir(fs, hid, path)
          IN  /\ Call("read_dir", path, <<>>, <<>>, hid, r)
              /\ stack' = IF r.res.ok
                          THEN Append(stack, [Frame("dir", hid, path) EXCEPT
                                                 !.start = ChildNames(fs.tree, Split(path))])
                          ELSE stack

\* Filesystem::read_dir_and_then from the return of f
DirReturn ==
    /\ stack # <<>>
    /\ Top.kind = "dir"
    /\ \E res \in CallbackResults :
          LET r == read_dir_and_then_finish(fs, Top.hid, res)
          IN  /\ CallCost("read_dir_and_then", Top.path, <<>>, <<>>, Top.hid, r, 0)
              /\ stack' = Pop

\* One call of next on a ReadDir from inside the callbacks that can reach it
DirNext ==
    \E i \in DirFrames :
        LET r == ReadDir_next(fs, stack[i].hid, stack[i].path)
        IN  /\ CallCost("next", stack[i].path, <<>>, <<>>, stack[i].hid,
                        [res |-> IF r.opt = "SomeErr" THEN Err(r.e) ELSE Ok(r.opt), fs |-> r.fs], 0)
            /\ stack' = [stack EXCEPT
                 ![i].yielded = IF r.opt = "SomeOk" THEN Append(@, r.entry) ELSE @,
                 ![i].ended = @ \/ r.opt = "None",
                 ![i].nones = IF r.opt = "None" THEN Min({@ + 1, 2}) ELSE @,
                 ![i].resumed = @ \/ (stack[i].ended /\ r.opt # "None"),
                 ![i].erred = @ \/ r.opt = "SomeErr"]

(***************************************************************************)
(* SpecScoped: scoped files and directory iterators, nested, with calls on  *)
(* the handles and removals in between.                                     *)
(***************************************************************************)
ScopedSteps == 2
ScopedInit == FsInit(ScopedSteps)
ScopedNext ==
    \/ MountAndThen
    \/ MountReturn
    \/ OpenAndThen
    \/ FileReturn
    \/ FileWrite
    \/ FileRead
    \/ FileSync
    \/ ReadDirAndThen
    \/ DirReturn
    \/ DirNext
    \/ Remove
SpecScoped == ScopedInit /\ [][ScopedNext]_vars

FrameHids == {stack[i].hid : i \in FileFrames \cup DirFrames}

\* C3: the open-handle list holds exactly the handles of the scoped calls in
\* progress; when a scoped call returns (its callback returned Ok or Err) its
\* handle was in the list, is not any more, no other handle left the list and
\* no close was made on a handle outside the list; when the open fails the
\* list is unchanged.
C3_ScopedHandlesClosed ==
    /\ fs.mounted => (Hids(fs) = FrameHids /\ Len(fs.mlist) = Cardinality(FrameHids))
    /\ ~fs.badclose
    /\ last.op \in {"open_and_then", "read_dir_and_then"} =>
          /\ last.n \in Hids(last.pre)
          /\ last.n \notin Hids(fs)
          /\ Hids(fs) = Hids(last.pre) \ {last.n}
    /\ (last.op \in {"open", "read_dir"} /\ ~last.res.ok) =>
          Hids(fs) = Hids(last.pre)

\* C3 witness: a scoped file call nested in another scoped call has returned
\* the error of its callback, and only the outer handle is still open.
C3_Witness ==
    /\ last.op = "open_and_then"
    /\ ~last.res.ok
    /\ Len(stack) = 2
    /\ Hids(last.pre) = {stack[2].hid, last.n}
    /\ Hids(fs) = {stack[2].hid}
    /\ last.n # stack[2].hid

(***************************************************************************)
(* SpecAttr: user attributes of files and directories.                      *)
(***************************************************************************)
AttrDatas == {<<>>, <<0>>, Rep(1, MaxLen)}
AttrBufs == {0, 1, MaxLen}

SetAttribute ==
    \E path \in Paths, id \in AttrIds, data \in AttrDatas :
        FsCall("set_attribute", path, <<>>, data, id, Filesystem_set_attribute(fs, path, id, data))

RemoveAttribute ==
    \E path \in Paths, id \in AttrIds :
        FsCall("remove_attribute", path, <<>>, <<>>, id, Filesystem_remove_attribute(fs, path, id))

\* Filesystem::attribute with a buffer of buflen bytes
GetAttribute ==
    \E path \in Paths, id \in AttrIds, buflen \in AttrBufs :
        FsCall("attribute", path, <<>>, <<>>, <<id, buflen>>,
               Filesystem_attribute(fs, path, id, buflen))

\* The storage may hold an attribute set in an earlier session.
AttrSteps == 2
AttrTrees == {t \in InitTrees : Cardinality(DOMAIN t) <= 2}
AttrInit ==
    /\ DevIdle
    /\ pin = <<>>
    /\ pout = [ctor |-> "none", res |-> PathErr("none")]
    /\ stack = <<>>
    /\ last = NoCall
    /\ steps = AttrSteps
    /\ \/ /\ fs \in {BlankFs} \cup {Formatted(t) : t \in AttrTrees}
          /\ wrote = NoWrite
       \/ \E t \in AttrTrees, p \in Locs, id \in AttrIds :
             /\ p \in DOMAIN t
             /\ fs = Formatted([t EXCEPT ![p].attrs[id] = [set |-> TRUE, data |-> Rep(1, MaxLen)]])
             /\ wrote = [NoWrite EXCEPT !.sets = {<<PathStr(p), id>>}]
AttrNext ==
    \/ MountAndThen
    \/ MountReturn
    \/ SetAttribute
    \/ RemoveAttribute
    \/ GetAttribute
SpecAttr == AttrInit /\ [][AttrNext]_vars


\* C6: attribute(p, id) after a successful set_attribute(p, id, d) returns d
\* (as much of it as the buffer holds) with total size |d|; after a successful
\* remove_attribute(p, id) it returns none; an attribute that was never set
\* reads as none; the same for directories as for files.
C6_AttributeRoundTrip ==
    last.op = "attribute" =>
        /\ (/\ wrote.valid /\ wrote.op = "set_attribute"
            /\ wrote.path = last.path /\ wrote.id = last.n[1]) =>
               /\ last.res.ok
               /\ last.res.v.some
               /\ last.res.v.total_size = Len(wrote.data)
               /\ last.res.v.data = Take(wrote.data, last.n[2])
        /\ (/\ wrote.valid /\ wrote.op = "remove_attribute"
            /\ wrote.path = last.path /\ wrote.id = last.n[1]) =>
               (last.res.ok /\ ~last.res.v.some)
        /\ <<last.path, last.n[1]>> \notin wrote.sets =>
               /\ lfs_dir_find(fs.tree, Split(last.path)) = OK => last.res.ok
               /\ last.res.ok => ~last.res.v.some

\* C6 witness: an attribute set on a directory was read back whole after a
\* remount.
C6_Witness ==
    /\ last.op = "attribute"
    /\ wrote.valid /\ wrote.op = "set_attribute" /\ wrote.remounted
    /\ wrote.path = last.path /\ wrote.id = last.n[1]
    /\ Len(last.path) > 1
    /\ fs.tree[Split(last.path)].type = "dir"
    /\ Len(wrote.data) = MaxLen
    /\ last.res.ok /\ last.res.v.some
    /\ last.res.v.data = wrote.data
    /\ last.res.v.total_size = MaxLen

\* C6 witness: an attribute was removed and then read as none.
C6_WitnessRemoved ==
    /\ last.op = "attribute"
    /\ wrote.valid /\ wrote.op = "remove_attribute"
    /\ wrote.path = last.path /\ wrote.id = last.n[1]
    /\ <<last.path, last.n[1]>> \in wrote.sets
    /\ last.res.ok /\ ~last.res.v.some

\* C18: when the attribute id of the entry at a path is stored with s
\* bytes, attribute(path, id, buf) returns an attribute whose total_size is
\* s and whose data are the first min(s, |buf|) bytes stored, for every
\* length of buf, 0 and lengths below s included; the call changes nothing.
C18_TruncatedRead ==
    (/\ last.op = "attribute"
     /\ Split(last.path) \in DOMAIN last.pre.tree
     /\ last.pre.tree[Split(last.path)].attrs[last.n[1]].set) =>
        LET stored == last.pre.tree[Split(last.path)].attrs[last.n[1]].data
            s == Len(stored)
            n == IF s < last.n[2] THEN s ELSE last.n[2]
        IN  /\ last.res.ok
            /\ last.res.v.some
            /\ last.res.v.total_size = s
            /\ Len(last.res.v.data) = n
            /\ \A i \in 1..n : last.res.v.data[i] = stored[i]
            /\ fs = last.pre

\* C18 witness: an attribute of two bytes read into a buffer of one.
C18_Witness ==
    /\ last.op = "attribute"
    /\ last.res.ok
    /\ last.res.v.some
    /\ last.n[2] = 1
    /\ last.res.v.total_size = 2
    /\ Len(last.res.v.data) = 1

\* C18 witness: an attribute of two bytes read into a buffer of none.
C18_WitnessEmptyBuffer ==
    /\ last.op = "attribute"
    /\ last.res.ok
    /\ last.res.v.some
    /\ last.n[2] = 0
    /\ last.res.v.total_size = 2
    /\ last.res.v.data = <<>>

(***************************************************************************)
(* SpecAttrMax: attributes of the greatest size and beyond.                 *)
(***************************************************************************)
AttrMaxSteps == 2
AttrMaxDatas == {<<0>>, Rep(1, ATTR_MAX - 1), Rep(1, ATTR_MAX), Rep(1, ATTR_MAX + 1),
                 Rep(1, ATTR_MAX + 2)}

SetAttributeMax ==
    \E path \in Paths, id \in AttrIds, data \in AttrMaxDatas :
        FsCall("set_attribute", path, <<>>, data, id, Filesystem_set_attribute(fs, path, id, data))

\* Filesystem::attribute with a buffer of Attribute::MAX_SIZE bytes
GetAttributeMax ==
    \E path \in Paths, id \in AttrIds :
        FsCall("attribute", path, <<>>, <<>>, <<id, ATTR_MAX>>,
               Filesystem_attribute(fs, path, id, ATTR_MAX))

AttrMaxInit == AttrInit /\ fs.formatted
AttrMaxNext ==
    \/ MountAndThen
    \/ MountReturn
    \/ SetAttributeMax
    \/ GetAttributeMax
SpecAttrMax == AttrMaxInit /\ [][AttrMaxNext]_vars

\* C19: set_attribute on an existing entry succeeds when the data have at
\* most 1022 bytes and fails with NO_SPACE when they have more; a failed
\* call changes nothing, so that the value stored before is the one
\* attribute returns afterwards.
C19_AttributeSizeLimit ==
    /\ last.op = "set_attribute" =>
          /\ (Len(last.data) <= 1022 /\ Split(last.path) \in DOMAIN last.pre.tree) =>
                 last.res = Ok(Unit)
          /\ Len(last.data) > 1022 => last.res = Err(NO_SPACE)
          /\ ~last.res.ok =>
                 /\ fs = last.pre
                 /\ \A path \in Paths, id \in AttrIds :
                        Filesystem_attribute(fs, path, id, ATTR_MAX).res
                            = Filesystem_attribute(last.pre, path, id, ATTR_MAX).res
    /\ (/\ last.op = "attribute"
        /\ wrote.valid /\ wrote.op = "set_attribute"
        /\ wrote.path = last.path /\ wrote.id = last.n[1]) =>
          (last.res.ok /\ last.res.v.some /\ last.res.v.data = wrote.data)

\* C19 witness: data of 1023 bytes were refused for an attribute that was
\* stored with 1022 bytes by the call before, and stays so.
C19_Witness ==
    /\ last.op = "set_attribute"
    /\ Len(last.data) = 1023
    /\ last.res = Err(NO_SPACE)
    /\ wrote.valid
    /\ wrote.op = "set_attribute"
    /\ wrote.path = last.path
    /\ wrote.id = last.n
    /\ Len(wrote.data) = 1022
    /\ Filesystem_attribute(fs, last.path, last.n, ATTR_MAX).res.v.data = wrote.data

\* C19 witness: data of 1022 bytes were stored and read back.
C19_WitnessStored ==
    /\ last.op = "attribute"
    /\ last.res.ok
    /\ last.res.v.some
    /\ last.res.v.total_size = 1022
    /\ wrote.valid
    /\ steps = 0

(***************************************************************************)
(* SpecTree: one remove or rename on a tree left by earlier sessions, one   *)
(* of whose entries may carry an attribute.                                 *)
(***************************************************************************)
TreeSteps == 1
TreeInit ==
    /\ DevIdle
    /\ pin = <<>>
    /\ pout = [ctor |-> "none", res |-> PathErr("none")]
    /\ stack = <<>>
    /\ last = NoCall
    /\ wrote = NoWrite
    /\ steps = TreeSteps
    /\ \/ fs \in {BlankFs} \cup {Formatted(t) : t \in InitTrees}
       \/ \E t \in InitTrees, p \in Locs :
             /\ p \in DOMAIN t
             /\ fs = Formatted([t EXCEPT ![p].attrs[37] = [set |-> TRUE, data |-> Rep(1, MaxLen)]])
TreeNext ==
    \/ MountAndThen
    \/ MountReturn
    \/ Remove
    \/ RemoveDir
    \/ Rename
SpecTree == TreeInit /\ [][TreeNext]_vars

\* C7 as stated: remove fails with DIR_NOT_EMPTY on a non-empty directory,
\* with NO_SUCH_ENTRY on a missing entry, with PATH_IS_DIR on a directory
\* given to remove (the call for files, as opposed to remove_dir), and the
\* failing cases leave the state unchanged.
C7_AsStated ==
    last.op = "remove" =>
        LET t == last.pre.tree
            p == Split(last.path)
        IN  /\ (lfs_dir_find(t, p) = OK /\ Len(p) > 0 /\ t[p].type = "dir"
                /\ ChildNames(t, p) # {}) => last.res = Err(DIR_NOT_EMPTY)
            /\ lfs_dir_find(t, p) = NO_SUCH_ENTRY => last.res = Err(NO_SUCH_ENTRY)
            /\ (lfs_dir_find(t, p) = OK /\ Len(p) > 0 /\ t[p].type = "dir"
                /\ ChildNames(t, p) = {}) => last.res = Err(PATH_IS_DIR)
            /\ ~last.res.ok => fs = last.pre

\* C7: remove and remove_dir are the same call.  It fails with DIR_NOT_EMPTY
\* exactly on a non-empty directory, with NO_SUCH_ENTRY when a name of the
\* path is unbound, never with PATH_IS_DIR; on a file and on an empty
\* directory it succeeds and unbinds exactly that entry; every failing case
\* leaves the state unchanged.
C7_RemoveErrors ==
    last.op \in {"remove", "remove_dir"} =>
        LET t == last.pre.tree
            p == Split(last.path)
            found == lfs_dir_find(t, p) = OK /\ Len(p) > 0
        IN  /\ (found /\ t[p].type = "dir" /\ ChildNames(t, p) # {})
                   <=> last.res = Err(DIR_NOT_EMPTY)
            /\ lfs_dir_find(t, p) = NO_SUCH_ENTRY <=> last.res = Err(NO_SUCH_ENTRY)
            /\ last.res # Err(PATH_IS_DIR)
            /\ (found /\ (t[p].type = "file" \/ ChildNames(t, p) = {})) <=> last.res.ok
            /\ last.res.ok => fs.tree = Unbind(t, {p})
            /\ ~last.res.ok => fs = last.pre

\* C7 witness: remove, the call for files, was given an empty directory and
\* removed it.
C7_Witness ==
    /\ last.op = "remove"
    /\ last.res.ok
    /\ Split(last.path) \in DOMAIN last.pre.tree
    /\ last.pre.tree[Split(last.path)].type = "dir"
    /\ Split(last.path) \notin DOMAIN fs.tree

IterSteps == 3
IterNodes == 4
IterTrees == {t \in InitTrees : Cardinality(DOMAIN t) <= IterNodes}
IterInit ==
    /\ DevIdle
    /\ pin = <<>>
    /\ pout = [ctor |-> "none", res |-> PathErr("none")]
    /\ fs \in {Formatted(t) : t \in IterTrees}
    /\ stack = <<>>
    /\ last = NoCall
    /\ wrote = NoWrite
    /\ steps = IterSteps
IterContents == {<<>>, Rep(1, MaxLen)}
\* The paths of the entries, present or not, of the directories under iteration
IterPaths ==
    {PathStr(l) : l \in {l \in Locs \ {Root} : \E i \in DirFrames : Parent(l) = Split(stack[i].path)}}
\* Filesystem::write from inside a read_dir_and_then callback
IterWrite ==
    \E path \in IterPaths, contents \in IterContents :
        FsCall("write", path, <<>>, contents, 0, Filesystem_write(fs, path, contents))
\* Filesystem::create_dir from inside a read_dir_and_then callback
IterCreateDir ==
    \E path \in IterPaths :
        FsCall("create_dir", path, <<>>, <<>>, 0, Filesystem_create_dir(fs, path))
\* Filesystem::remove from inside a read_dir_and_then callback
IterRemove ==
    \E path \in IterPaths :
        FsCall("remove", path, <<>>, <<>>, 0, Filesystem_remove(fs, path))
\* Filesystem::read_dir_and_then, one iteration at a time
IterReadDir ==
    /\ DirFrames = {}
    /\ ReadDirAndThen
IterNext ==
    \/ MountAndThen
    \/ MountReturn
    \/ IterReadDir
    \/ DirReturn
    \/ DirNext
    \/ IterWrite
    \/ IterCreateDir
    \/ IterRemove
SpecIter == IterInit /\ [][IterNext]_vars

\* The names of the children yielded so far by the iteration of frame fr,
\* and how often a name was yielded.
YieldedNames(fr) == {fr.yielded[i].file_name : i \in 3..Len(fr.yielded)}
TimesYielded(fr, name) ==
    Cardinality({i \in 1..Len(fr.yielded) : fr.yielded[i].file_name = name})
EntryPath(d, name) ==
    IF d = <<>> THEN <<SLASH>> \o name ELSE PathStr(d) \o <<SLASH>> \o name

\* C9: an iteration of directory d with nothing changing meanwhile yields
\* "." then ".." (directories of size 0), then the children of d, none twice,
\* each with its name, type and length; None comes only after all of them
\* and then stays None; no call fails; every entry's path is d joined with
\* its file name.
C9_ReadDirYields ==
    \A i \in DirFrames :
        LET fr == stack[i]
            d == Split(fr.path)
            y == fr.yielded
        IN  ~fr.changed =>
              /\ ~fr.erred
              /\ ~fr.resumed
              /\ Len(y) >= 1 => (y[1].file_name = <<DOT>> /\ y[1].type = "dir" /\ y[1].size = 0)
              /\ Len(y) >= 2 => (y[2].file_name = <<DOT, DOT>> /\ y[2].type = "dir" /\ y[2].size = 0)
              /\ \A k \in 1..Len(y) : y[k].path = EntryPath(d, y[k].file_name)
              /\ \A k \in 3..Len(y) :
                    /\ y[k].file_name \in ChildNames(fs.tree, d)
                    /\ y[k].type = fs.tree[d \o <<y[k].file_name>>].type
                    /\ y[k].size = Len(fs.tree[d \o <<y[k].file_name>>].data)
                    /\ TimesYielded(fr, y[k].file_name) = 1
              /\ fr.ended => (Len(y) >= 2 /\ YieldedNames(fr) = ChildNames(fs.tree, d))

\* C9 witness: an iteration of a subdirectory with a non-empty file came to
\* its end and was asked again.
C9_Witness ==
    \E i \in DirFrames :
        /\ ~stack[i].changed
        /\ stack[i].nones = 2
        /\ Len(Split(stack[i].path)) = 1
        /\ Len(stack[i].yielded) = 3
        /\ stack[i].yielded[3].type = "file"
        /\ stack[i].yielded[3].size > 0

\* C9 witness: an iteration of the root with two children came to its end.
C9_WitnessRoot ==
    \E i \in DirFrames :
        /\ ~stack[i].changed
        /\ stack[i].ended
        /\ Split(stack[i].path) = <<>>
        /\ Len(stack[i].yielded) = 4

RemoveDirAllProgress(files_removed, skipped_any) ==
    [files_removed |-> files_removed, skipped_any |-> skipped_any]

\* The end of remove_dir_all_where_inner with the directory removed even
\* when a file below it was skipped
remove_dir_all_finish_always(f, path, progress) ==
    IF path # <<>> /\ path # <<SLASH>>
    THEN The({[res |-> IF d.res.ok THEN Ok(progress) ELSE d.res, fs |-> d.fs]
              : d \in {Filesystem_remove_dir(f, path)}})
    ELSE [res |-> Ok(progress), fs |-> f]

\* The end of remove_dir_all_where_inner:
\* if !skipped_any && path != "" && path != "/" { self.remove_dir(path)?; }
remove_dir_all_finish(f, path, progress) ==
    IF ~progress.skipped_any /\ path # <<>> /\ path # <<SLASH>>
    THEN The({[res |-> IF d.res.ok THEN Ok(progress) ELSE d.res, fs |-> d.fs]
              : d \in {Filesystem_remove_dir(f, path)}})
    ELSE [res |-> Ok(progress), fs |-> f]

RECURSIVE Filesystem_remove_dir_all_where_inner(_, _, _)
RECURSIVE remove_dir_all_entries(_, _, _, _, _)

\* The loop of the callback: for entry in read_dir.skip(2), from the third
\* call of next on
remove_dir_all_entries(f, hid, path, predicate, progress) ==
    The({
        IF n.opt = "None" THEN [res |-> Ok(progress), fs |-> n.fs]
        ELSE IF n.opt = "SomeErr" THEN [res |-> Err(n.e), fs |-> n.fs]
        ELSE IF n.entry.type = "file"
        THEN IF Split(n.entry.path) \in predicate
             THEN The({
                     IF ~r.res.ok THEN r
                     ELSE remove_dir_all_entries(r.fs, hid, path, predicate,
                              [progress EXCEPT !.files_removed = @ + 1])
                     : r \in {Filesystem_remove(n.fs, n.entry.path)}})
             ELSE remove_dir_all_entries(n.fs, hid, path, predicate,
                      [progress EXCEPT !.skipped_any = TRUE])
        ELSE The({
                IF ~r.res.ok THEN r
                ELSE remove_dir_all_entries(r.fs, hid, path, predicate,
                         RemoveDirAllProgress(
                             progress.files_removed + r.res.v.files_removed,
                             progress.skipped_any \/ r.res.v.skipped_any))
                : r \in {Filesystem_remove_dir_all_where_inner(n.fs, n.entry.path, predicate)}})
        : n \in {ReadDir_next(f, hid, path)}})

\* Filesystem::remove_dir_all_where_inner
Filesystem_remove_dir_all_where_inner(f, path, predicate) ==
    IF ~Filesystem_exists(f, path)
    THEN [res |-> Ok(RemoveDirAllProgress(0, FALSE)), fs |-> f]
    ELSE The({
            IF ~o.res.ok THEN o
            ELSE The({
                    IF ~c.res.ok THEN c ELSE remove_dir_all_finish(c.fs, path, c.res.v)
                    : c \in {The({read_dir_and_then_finish(l.fs, o.res.v, l.res)
                                   : l \in {remove_dir_all_entries(
                                               ReadDir_next(ReadDir_next(o.fs, o.res.v, path).fs,
                                                            o.res.v, path).fs,
                                               o.res.v, path, predicate,
                                               RemoveDirAllProgress(0, FALSE))}})}})
            : o \in {Filesystem_read_dir(f, NewHid(f), path)}})

\* Filesystem::remove_dir_all_where
Filesystem_remove_dir_all_where(f, path, predicate) ==
    The({[res |-> IF r.res.ok THEN Ok(r.res.v.files_removed) ELSE r.res, fs |-> r.fs]
         : r \in {Filesystem_remove_dir_all_where_inner(f, path, predicate)}})

\* Filesystem::remove_dir_all: the predicate |_| true
Filesystem_remove_dir_all(f, path) ==
    The({[res |-> IF r.res.ok THEN Ok(Unit) ELSE r.res, fs |-> r.fs]
         : r \in {Filesystem_remove_dir_all_where(f, path, Locs)}})

FileLocs == Locs \ {Root}
RemoveAllPaths == Paths \cup {<<>>}

RemoveDirAllWhere ==
    \E path \in RemoveAllPaths, predicate \in SUBSET FileLocs :
        FsCall("remove_dir_all_where", path, <<>>, predicate, 0,
               Filesystem_remove_dir_all_where(fs, path, predicate))

RemoveDirAll ==
    \E path \in RemoveAllPaths :
        FsCall("remove_dir_all", path, <<>>, Locs, 0, Filesystem_remove_dir_all(fs, path))

RemoveAllSteps == 1
RemoveAllInit ==
    /\ DevIdle
    /\ pin = <<>>
    /\ pout = [ctor |-> "none", res |-> PathErr("none")]
    /\ stack = <<>>
    /\ last = NoCall
    /\ wrote = NoWrite
    /\ steps = RemoveAllSteps
    /\ fs \in {Formatted(t) : t \in InitTrees}
RemoveAllNext ==
    \/ MountAndThen
    \/ MountReturn
    \/ RemoveDirAllWhere
    \/ RemoveDirAll
SpecRemoveAll == RemoveAllInit /\ [][RemoveAllNext]_vars

\* What a remove_dir_all_where of the directory at p leaves of the tree t
\* when the predicate accepts the locations in accepted: the files below p
\* that it accepts, the directories below p (p included, the root excepted)
\* with no other file anywhere below them.
FilesBelow(t, p) == {q \in Subtree(t, p) : t[q].type = "file"}
RemovedFiles(t, p, accepted) == FilesBelow(t, p) \cap accepted
RemovedDirs(t, p, accepted) ==
    {d \in Subtree(t, p) :
        /\ t[d].type = "dir"
        /\ d # Root
        /\ \A q \in FilesBelow(t, p) \ accepted : ~IsPrefix(d, q)}

\* C11: remove_dir_all_where(p, pred) on a directory removes exactly the
\* files of the subtree of p that pred accepts and returns their number;
\* every other file is still there with its contents; a directory of the
\* subtree, p included, is gone exactly when no file below it was skipped
\* and it is not the root; no handle stays open.  On a path that does not
\* exist it returns Ok(0) and changes nothing (on a path that names a file
\* it fails and changes nothing).  remove_dir_all returns Ok, removes the
\* whole subtree and p unless p is the root, and all their blocks are
\* available again.
C11_RemoveDirAllWhere ==
    last.op \in {"remove_dir_all_where", "remove_dir_all"} =>
        LET t == last.pre.tree
            p == Split(last.path)
            accepted == last.data
        IN  /\ p \notin DOMAIN t =>
                  /\ fs = last.pre
                  /\ last.res.ok
                  /\ last.op = "remove_dir_all_where" => last.res.v = 0
            /\ (p \in DOMAIN t /\ t[p].type = "file") =>
                  /\ fs = last.pre
                  /\ last.res = Err(PATH_NOT_DIR)
            /\ (p \in DOMAIN t /\ t[p].type = "dir") =>
                  /\ last.res.ok
                  /\ last.op = "remove_dir_all_where" =>
                         last.res.v = Cardinality(RemovedFiles(t, p, accepted))
                  /\ DOMAIN fs.tree =
                         DOMAIN t \ (RemovedFiles(t, p, accepted) \cup RemovedDirs(t, p, accepted))
                  /\ \A q \in DOMAIN fs.tree : fs.tree[q] = t[q]
                  /\ fs.mlist = last.pre.mlist
                  /\ last.op = "remove_dir_all" =>
                         /\ DOMAIN fs.tree = (DOMAIN t \ Subtree(t, p)) \cup {Root}
                         /\ Filesystem_available_blocks(fs).v
                                = Filesystem_available_blocks(last.pre).v
                                  + SumBlocks(t, Subtree(t, p) \ {Root})

\* C11 witness: a remove_dir_all_where of the root removed a file of the
\* root and one file of a subdirectory and skipped the other file of the
\* subdirectory, so that the subdirectory stays.
C11_Witness ==
    /\ last.op = "remove_dir_all_where"
    /\ Split(last.path) = Root
    /\ last.res.ok
    /\ last.res.v = 2
    /\ \E d \in DOMAIN fs.tree :
          /\ Len(d) = 1
          /\ fs.tree[d].type = "dir"
          /\ Cardinality(ChildNames(fs.tree, d)) = 1
          /\ Cardinality(ChildNames(last.pre.tree, d)) = 2
    /\ \E q \in DOMAIN last.pre.tree :
          /\ Len(q) = 1
          /\ last.pre.tree[q].type = "file"
          /\ q \notin DOMAIN fs.tree

\* C11 witness: remove_dir_all of a directory that holds a file out of line
\* and a subdirectory; the blocks of all three are available again.
C11_WitnessAll ==
    /\ last.op = "remove_dir_all"
    /\ last.res.ok
    /\ Len(Split(last.path)) = 1
    /\ Cardinality(Subtree(last.pre.tree, Split(last.path))) = 3
    /\ Filesystem_available_blocks(fs).v >= Filesystem_available_blocks(last.pre).v + 5

\* C11 witness: remove_dir_all_where of a path that does not exist.
C11_WitnessMissing ==
    /\ last.op = "remove_dir_all_where"
    /\ Split(last.path) \notin DOMAIN last.pre.tree
    /\ last.res.ok

(***************************************************************************)
(* SpecHandles: files opened and closed by hand (File::open, File::create,  *)
(* OpenOptions::open, File::close), several at a time, closed in any order. *)
(* The frames above that of mount_and_then are the File values the program  *)
(* holds, in the order of their opens; a File stays in the list after its   *)
(* close, with kind "closed".                                               *)
(***************************************************************************)
\* impl io::Write for File: flush, when it syncs the file
File_flush_syncs(f, hid) == File_sync(f, hid)

\* impl io::Write for File: flush
File_flush(f, hid) == [res |-> Ok(Unit), fs |-> f]

MaxHandles == 2
HandleSteps == 2
HandlePaths == {PathStr(<<n>>) : n \in Names}
HandleOptions == {{"READ"}, {"WRITE", "CREATE", "TRUNCATE"}, {"WRITE", "APPEND"}}
HandleDatas == {<<0>>, <<0, 1>>}
OpenFiles == {i \in 1..Len(stack) : stack[i].kind = "file"}
ClosedFiles == {i \in 1..Len(stack) : stack[i].kind = "closed"}

\* OpenOptions::open
RawOpen ==
    /\ stack # <<>>
    /\ Len(stack) <= MaxHandles
    /\ \E path \in HandlePaths, flags \in HandleOptions :
          LET hid == Len(stack)
              r == OpenOptions_open(fs, hid, path, flags)
          IN  /\ CallCost("open", path, <<>>, <<>>, hid, r, 0)
              /\ stack' = IF r.res.ok THEN Append(stack, Frame("file", hid, path)) ELSE stack

\* File::close, of a File that is open or, the File value having been
\* duplicated, of one that was closed before
RawClose ==
    \E i \in OpenFiles \cup ClosedFiles :
        /\ CallCost("file_close", stack[i].path, <<>>, <<>>, stack[i].hid,
                    File_close(fs, stack[i].hid), 0)
        /\ stack' = [stack EXCEPT ![i].kind = "closed"]

RawWrite ==
    \E i \in OpenFiles, buf \in HandleDatas :
        /\ Call("file_write", stack[i].path, <<>>, buf, stack[i].hid,
                File_write(fs, stack[i].hid, buf))
        /\ UNCHANGED stack

RawSync ==
    \E i \in OpenFiles :
        /\ Call("file_sync", stack[i].path, <<>>, <<>>, stack[i].hid,
                File_sync(fs, stack[i].hid))
        /\ UNCHANGED stack

RawFlush ==
    \E i \in OpenFiles :
        /\ Call("flush", stack[i].path, <<>>, <<>>, stack[i].hid,
                File_flush(fs, stack[i].hid))
        /\ UNCHANGED stack

HandlesInit == FsInit(HandleSteps) /\ fs.formatted
HandlesNext ==
    \/ MountAndThen
    \/ MountReturn
    \/ RawOpen
    \/ RawClose
    \/ RawWrite
    \/ RawSync
    \/ RawFlush
SpecHandles == HandlesInit /\ [][HandlesNext]_vars

\* A buffer that holds every file of this specification
HandleCap == MaxLen + HandleSteps * MaxLen

\* What the paths show: the metadata of every path and what a fresh open
\* of it reads.
Shown(f) ==
    [path \in Paths |-> <<Filesystem_metadata(f, path).res, Filesystem_read(f, path, HandleCap).res>>]

C13_WitnessSync ==
    /\ last.op = "file_sync"
    /\ HandleOf(last.pre, last.n).dirty
    /\ Filesystem_read(last.pre, last.path, HandleCap).res.v
          # Filesystem_read(fs, last.path, HandleCap).res.v
    /\ Filesystem_read(fs, last.path, HandleCap).res.v = HandleOf(fs, last.n).data

\* C13 witness: a flush of a handle with bytes written and not committed.
C13_WitnessFlush ==
    /\ last.op = "flush"
    /\ HandleOf(fs, last.n).dirty
    /\ HandleOf(fs, last.n).data # fs.tree[Split(last.path)].data

\* The handles of the list other than hid, as they are.
Others(f, hid) == {h \in {f.mlist[i] : i \in 1..Len(f.mlist)} : h.hid # hid}

\* Bytes were written through the handle and are not committed yet.
Written(h) == h.dirty /\ h.data # <<>>

C14_WitnessOrder ==
    /\ last.op = "file_close"
    /\ last.res.ok
    /\ Len(stack) = 3
    /\ last.n = stack[2].hid
    /\ OpenFiles = {3}
    /\ HandleOf(last.pre, last.n).dirty
    /\ HandleOf(fs, stack[3].hid).dirty

C15_Witness ==
    /\ Len(stack) = 3
    /\ stack[2].kind = "file" /\ stack[3].kind = "file"
    /\ stack[2].path = stack[3].path
    /\ Len(fs.mlist) = 2
    /\ \A i \in 1..2 : "WRITE" \in fs.mlist[i].flags /\ fs.mlist[i].alive
    /\ HandleLoc(fs.tree, fs.mlist[1]) = HandleLoc(fs.tree, fs.mlist[2])

\* C15 as stated: of the live file handles to one file at most one has
\* write intent.
C15_AsStated ==
    \A i, j \in 1..Len(fs.mlist) :
        LET a == fs.mlist[i]
            b == fs.mlist[j]
        IN  (/\ i # j
             /\ a.type = "file" /\ b.type = "file"
             /\ a.alive /\ b.alive
             /\ HandleLoc(fs.tree, a) = HandleLoc(fs.tree, b))
            => ~("WRITE" \in a.flags /\ "WRITE" \in b.flags)

(***************************************************************************)
(* SpecBlocks: available_blocks along directory creations, removals,        *)
(* renames and whole-file writes and reads.                                 *)
(***************************************************************************)
BlockSteps == 2
BlockNodes == 3
BlocksInit == FsInit(BlockSteps) /\ Cardinality(DOMAIN fs.tree) <= BlockNodes
BlocksNext ==
    \/ Format
    \/ MountAndThen
    \/ MountReturn
    \/ CreateDir
    \/ Remove
    \/ Rename
    \/ Write
    \/ Read
SpecBlocks == BlocksInit /\ [][BlocksNext]_vars

Available(f) == Filesystem_available_blocks(f).v
DirCount(t) == Cardinality({q \in DOMAIN t : t[q].type = "dir"})
AllInline(t) == \A q \in DOMAIN t : t[q].type = "file" => Len(t[q].data) <= INLINE_MAX

\* What the claim says of every call but rename: after format and mount
\* total_blocks - 2 blocks are available; a successful create_dir takes 2,
\* the removal of an empty directory gives 2 back; the write of an inline
\* file to a path that is unbound or holds an inline file, and a read,
\* change nothing; while every file is inline, total_blocks minus twice
\* the number of directories are available.
BlockAccounting ==
    /\ Filesystem_available_blocks(fs).ok
    /\ (last.op = "mount" /\ last.res.ok /\ fs.tree = EmptyTree) =>
          Available(fs) = BLOCK_COUNT - 2
    /\ (last.op = "create_dir" /\ last.res.ok) => Available(fs) = Available(last.pre) - 2
    /\ (last.op = "remove" /\ last.res.ok /\ last.pre.tree[Split(last.path)].type = "dir") =>
          Available(fs) = Available(last.pre) + 2
    /\ (/\ last.op = "write" /\ last.res.ok /\ Len(last.data) <= INLINE_MAX
        /\ Split(last.path) \in DOMAIN last.pre.tree
               => Len(last.pre.tree[Split(last.path)].data) <= INLINE_MAX) =>
          Available(fs) = Available(last.pre)
    /\ last.op = "read" => Available(fs) = Available(last.pre)
    /\ AllInline(fs.tree) => Available(fs) = BLOCK_COUNT - 2 * DirCount(fs.tree)

\* C17 as stated: the above, and a successful rename leaves the number of
\* available blocks unchanged.
C17_AsStated ==
    /\ BlockAccounting
    /\ (last.op = "rename" /\ last.res.ok) => Available(fs) = Available(last.pre)

\* C17: the above, and a successful rename to a path that was unbound (or
\* to its own path) leaves the number of available blocks unchanged, while
\* a rename that replaces an empty directory gives the 2 blocks of the
\* replaced directory back and one that replaces a file gives back the
\* blocks of the replaced file.
C17_BlockAccounting ==
    /\ BlockAccounting
    /\ (last.op = "rename" /\ last.res.ok) =>
          LET t == last.pre.tree
              new == Split(last.path2)
          IN  IF new \notin DOMAIN t \/ new = Split(last.path)
              THEN Available(fs) = Available(last.pre)
              ELSE IF t[new].type = "dir" THEN Available(fs) = Available(last.pre) + 2
              ELSE Available(fs) = Available(last.pre) + DataBlocks(Len(t[new].data))

\* C17 witness: a directory was created and removed again, and as many
\* blocks are available as before the two calls.
C17_Witness ==
    /\ last.op = "remove"
    /\ last.res.ok
    /\ steps = 0
    /\ Len(Split(last.path)) = 2
    /\ Split(last.path) \in DOMAIN last.pre.tree
    /\ last.pre.tree[Split(last.path)].type = "dir"
    /\ AllInline(fs.tree)
    /\ Available(fs) = Available(last.pre) + 2
    /\ Available(fs) = BLOCK_COUNT - 4

\* C17 witness: a rename of a directory to an unbound path of another
\* directory.
C17_WitnessRename ==
    /\ last.op = "rename"
    /\ last.res.ok
    /\ Split(last.path2) \notin DOMAIN last.pre.tree
    /\ Len(Split(last.path2)) = 2
    /\ Len(Split(last.path)) = 1
    /\ last.pre.tree[Split(last.path)].type = "dir"

\* C17 witness: a rename has replaced an empty directory.
C17_WitnessReplaced ==
    /\ last.op = "rename"
    /\ last.res.ok
    /\ Split(last.path2) \in DOMAIN last.pre.tree
    /\ Split(last.path2) # Split(last.path)
    /\ last.pre.tree[Split(last.path2)].type = "dir"
    /\ Available(fs) = Available(last.pre) + 2

\* C17 witness: an inline file was written and read.
C17_WitnessInline ==
    /\ last.op = "read"
    /\ last.res.ok
    /\ Len(last.res.v) = INLINE_MAX
    /\ wrote.valid
    /\ wrote.path = last.path
    /\ steps = 0

(***************************************************************************)
(* SpecFileName: Path::file_name on every short path.  A path is given by   *)
(* its bytes before the NUL; the result is an Option<&Path>.                *)
(***************************************************************************)
NoPath == [some |-> FALSE, path |-> <<>>]
SomePath(bytes) == [some |-> TRUE, path |-> bytes]

\* str::rsplit_once('/'): the index of the last slash, 0 when there is none
LastSlash(s) ==
    IF \E i \in 1..Len(s) : s[i] = SLASH
    THEN CHOOSE i \in 1..Len(s) : s[i] = SLASH /\ \A j \in (i + 1)..Len(s) : s[j] # SLASH
    ELSE 0

\* Path::file_name
Path_file_name(self) ==
    IF self = <<>> THEN NoPath
    ELSE LET this == self \o <<NUL>>
             k == LastSlash(this)
             path == SubSeq(this, k + 1, Len(this))
         IN  IF k = 0 \/ path = <<NUL>> THEN NoPath
             ELSE SomePath(SubSeq(path, 1, Len(path) - 1))

MaxPathLen == 4
PathBytes == {SLASH, LETTER_A, LETTER_B, DOT}
ShortPaths == UNION {[1..n -> PathBytes] : n \in 0..MaxPathLen}

FileNameInit ==
    /\ DevIdle
    /\ pin \in ShortPaths
    /\ pout = [ctor |-> "none", res |-> NoPath]
    /\ fs = "unused" /\ stack = <<>> /\ last = "unused" /\ wrote = "unused" /\ steps = 0

CallFileName ==
    /\ pout.ctor = "none"
    /\ pout' = [ctor |-> "file_name", res |-> Path_file_name(pin)]
    /\ UNCHANGED <<pin, fsVars, devVars>>

FileNameNext == CallFileName
SpecFileName == FileNameInit /\ [][FileNameNext]_vars

\* C20 as stated: file_name returns none for the empty path and for every
\* path that ends with a slash ("/" among them); for every other path it
\* returns the bytes after the last slash, or the whole path when the path
\* has no slash.
C20_AsStated ==
    pout.ctor = "file_name" =>
        IF pin = <<>> \/ pin[Len(pin)] = SLASH THEN pout.res = NoPath
        ELSE IF \A i \in 1..Len(pin) : pin[i] # SLASH THEN pout.res = SomePath(pin)
        ELSE \E i \in 1..Len(pin) :
                /\ pin[i] = SLASH
                /\ \A j \in (i + 1)..Len(pin) : pin[j] # SLASH
                /\ pout.res = SomePath(SubSeq(pin, i + 1, Len(pin)))

\* C20 witness: file_name of a path of one name and no slash has returned
\* none.
C20_Witness ==
    /\ pout.ctor = "file_name"
    /\ pin = <<LETTER_A, DOT, LETTER_B>>
    /\ pout.res = NoPath

\* C20 witness: file_name of a path with a slash before its last name has
\* returned that name.
C20_WitnessName ==
    /\ pout.ctor = "file_name"
    /\ pin = <<SLASH, LETTER_A, SLASH, LETTER_B>>
    /\ pout.res = SomePath(<<LETTER_B>>)

(***************************************************************************)
(* SpecAncestors: Path::parent and the Ancestors iterator on every short    *)
(* path.  pout holds the last call, its result, the iterator's remaining    *)
(* path and the items the iterator has yielded so far.                      *)
(***************************************************************************)
PathOption(r) == IF r.ok THEN SomePath(r.bytes) ELSE NoPath

\* Path::parent
RECURSIVE Path_parent(_)
Path_parent(self) ==
    LET rk_path_bytes == self
        slash_index == LastSlash(rk_path_bytes) - 1
    IN  IF slash_index = -1 THEN NoPath
        ELSE IF slash_index = 0 /\ Len(rk_path_bytes) # 1 THEN SomePath(<<SLASH>>)
        ELSE LET r == PathBuf_try_from(SubSeq(rk_path_bytes, 1, slash_index))
             IN  IF slash_index + 1 = Len(rk_path_bytes)
                 THEN IF r.ok THEN Path_parent(r.bytes) ELSE NoPath
                 ELSE PathOption(r)

\* Path::ancestors
Path_ancestors(self) == self

\* Ancestors::next without the second step after a trailing slash.
Ancestors_next_noskip(path) ==
    IF path = <<>> THEN [item |-> NoPath, path |-> <<>>]
    ELSE IF path = <<SLASH>> THEN [item |-> SomePath(<<SLASH>>), path |-> <<>>]
    ELSE LET item == path
             k == LastSlash(path)
             rem == SubSeq(path, 1, k - 1)
         IN  IF k = 0 THEN [item |-> PathOption(PathBuf_try_from(item)), path |-> <<>>]
             ELSE [item |-> PathOption(PathBuf_try_from(item)),
                   path |-> IF path[1] = SLASH /\ rem = <<>> THEN <<SLASH>> ELSE rem]

\* Ancestors::next: the item returned and the path the iterator is left with.
RECURSIVE Ancestors_next(_)
Ancestors_next(path) ==
    IF path = <<>> THEN [item |-> NoPath, path |-> <<>>]
    ELSE IF path = <<SLASH>> THEN [item |-> SomePath(<<SLASH>>), path |-> <<>>]
    ELSE LET item == path
             k == LastSlash(path)
             rem == SubSeq(path, 1, k - 1)
             item_name == SubSeq(path, k + 1, Len(path))
             stepped == IF path[1] = SLASH /\ rem = <<>> THEN <<SLASH>> ELSE rem
         IN  IF k = 0 THEN [item |-> PathOption(PathBuf_try_from(item)), path |-> <<>>]
             ELSE [item |-> PathOption(PathBuf_try_from(item)),
                   path |-> IF item_name = <<>> THEN Ancestors_next(stepped).path
                            ELSE stepped]

NoIter == [ctor |-> "none", res |-> NoPath, path |-> <<>>, yielded |-> <<>>]

AncestorsInit ==
    /\ DevIdle
    /\ pin \in ShortPaths
    /\ pout = NoIter
    /\ fs = "unused" /\ stack = <<>> /\ last = "unused" /\ wrote = "unused" /\ steps = 0

CallParent ==
    /\ pout.ctor = "none"
    /\ pout' = [NoIter EXCEPT !.ctor = "parent", !.res = Path_parent(pin)]
    /\ UNCHANGED <<pin, fsVars, devVars>>

CallAncestors ==
    /\ pout.ctor = "none"
    /\ pout' = [NoIter EXCEPT !.ctor = "ancestors", !.path = Path_ancestors(pin)]
    /\ UNCHANGED <<pin, fsVars, devVars>>

\* One call of next on the iterator, until it has returned none.
CallAncestorsNext ==
    /\ pout.ctor = "ancestors" \/ (pout.ctor = "next" /\ pout.res.some)
    /\ LET r == Ancestors_next(pout.path)
       IN  pout' = [ctor |-> "next", res |-> r.item, path |-> r.path,
                    yielded |-> IF r.item.some THEN Append(pout.yielded, r.item.path)
                                ELSE pout.yielded]
    /\ UNCHANGED <<pin, fsVars, devVars>>

AncestorsNext ==
    \/ CallParent
    \/ CallAncestors
    \/ CallAncestorsNext
SpecAncestors == AncestorsInit /\ [][AncestorsNext]_vars

\* The path without its trailing slashes.
RECURSIVE TrimSlashes(_)
TrimSlashes(p) ==
    IF p # <<>> /\ p[Len(p)] = SLASH THEN TrimSlashes(SubSeq(p, 1, Len(p) - 1)) ELSE p

\* The parent as the words give it: the trailing slashes are ignored, then
\* the last slash and the name after it are dropped; the root stays for a
\* name directly under it.
ParentAsStated(p) ==
    LET q == TrimSlashes(p)
        k == LastSlash(q)
    IN  IF k = 0 THEN NoPath
        ELSE IF k = 1 THEN SomePath(<<SLASH>>)
        ELSE SomePath(SubSeq(q, 1, k - 1))

\* p, parent(p), parent(parent(p)), ... until parent returns none.
RECURSIVE ParentChain(_)
ParentChain(p) ==
    LET parent == Path_parent(p)
    IN  IF parent.some THEN <<parent.path>> \o ParentChain(parent.path) ELSE <<>>
AncestorChain(p) == (IF p = <<>> THEN <<>> ELSE <<p>>) \o ParentChain(p)

\* C21: parent(p) is p without its trailing slashes, its last slash and the
\* name after it ("/" for a name directly under the root), and none for "/"
\* and for a path without a slash; the ancestors iterator yields p itself
\* (when p is not empty) and then parent(p), parent(parent(p)), ..., one
\* item per call, and returns none exactly when the chain has ended.
C21_ParentAncestors ==
    /\ pout.ctor = "parent" =>
        /\ pout.res = ParentAsStated(pin)
        /\ (pin = <<SLASH>> \/ \A i \in 1..Len(pin) : pin[i] # SLASH) => pout.res = NoPath
    /\ pout.ctor \in {"ancestors", "next"} =>
        LET chain == AncestorChain(pin)
            n == Len(pout.yielded)
        IN  /\ n <= Len(chain)
            /\ pout.yielded = SubSeq(chain, 1, n)
            /\ pout.ctor = "next" =>
                IF pout.res.some THEN pout.res.path = chain[n]
                ELSE n = Len(chain)

\* C21 witness: the ancestors of "/a/b" have been yielded to the end: the
\* path itself, "/a" and "/".
C21_Witness ==
    /\ pin = <<SLASH, LETTER_A, SLASH, LETTER_B>>
    /\ pout.ctor = "next"
    /\ ~pout.res.some
    /\ pout.yielded = <<pin, <<SLASH, LETTER_A>>, <<SLASH>>>>

\* C21 witness: the ancestors of "a/b/", a path with a trailing slash, have
\* been yielded to the end: the path itself and "a".
C21_WitnessTrailing ==
    /\ pin = <<LETTER_A, SLASH, LETTER_B, SLASH>>
    /\ pout.ctor = "next"
    /\ ~pout.res.some
    /\ pout.yielded = <<pin, <<LETTER_A>>>>

\* C21 witness: parent of "/a/" has returned "/", and parent of "/" none.
C21_WitnessParent ==
    /\ pout.ctor = "parent"
    /\ \/ pin = <<SLASH, LETTER_A, SLASH>> /\ pout.res = SomePath(<<SLASH>>)
       \/ pin = <<SLASH>> /\ pout.res = NoPath

(***************************************************************************)
(* SpecCmp: Path::cmp_str and Path::cmp_lfs on every triple of short        *)
(* paths.  pout holds, for every pair of the three paths, the ordering      *)
(* each of the two comparisons has returned.                                *)
(***************************************************************************)
MaxCmpLen == 2
CmpBytes == {SLASH, LETTER_A, LETTER_B}
CmpPaths == UNION {[1..n -> CmpBytes] : n \in 0..MaxCmpLen}
CmpPairs == (1..3) \X (1..3)
NoOrderings == [ij \in CmpPairs |-> "none"]

CmpInit ==
    /\ DevIdle
    /\ pin \in CmpPaths \X CmpPaths \X CmpPaths
    /\ pout = [ctor |-> "none", str |-> NoOrderings, lfs |-> NoOrderings]
    /\ fs = "unused" /\ stack = <<>> /\ last = "unused" /\ wrote = "unused" /\ steps = 0

\* cmp_str of every pair of the three paths
CallCmpStr ==
    /\ pout.ctor \in {"none", "cmp_lfs"}
    /\ pout' = [pout EXCEPT !.ctor = IF @ = "none" THEN "cmp_str" ELSE "both",
                            !.str = [ij \in CmpPairs |-> Path_cmp_str(pin[ij[1]], pin[ij[2]])]]
    /\ UNCHANGED <<pin, fsVars, devVars>>

\* cmp_lfs of every pair of the three paths
CallCmpLfs ==
    /\ pout.ctor \in {"none", "cmp_str"}
    /\ pout' = [pout EXCEPT !.ctor = IF @ = "none" THEN "cmp_lfs" ELSE "both",
                            !.lfs = [ij \in CmpPairs |-> cmp_lfs(pin[ij[1]], pin[ij[2]])]]
    /\ UNCHANGED <<pin, fsVars, devVars>>

CmpNext ==
    \/ CallCmpStr
    \/ CallCmpLfs
SpecCmp == CmpInit /\ [][CmpNext]_vars

\* a is a prefix of b and shorter than b
ProperPrefix(a, b) == Len(a) < Len(b) /\ a = SubSeq(b, 1, Len(a))

\* The lexicographic order of two byte strings: at the first position where
\* they differ the smaller byte decides, and a string precedes those it is a
\* proper prefix of.
LexOrder(a, b) ==
    IF a = b THEN "Equal"
    ELSE IF \E k \in 1..Len(b) :
                /\ k - 1 <= Len(a)
                /\ \A i \in 1..(k - 1) : a[i] = b[i]
                /\ (k > Len(a) \/ a[k] < b[k])
         THEN "Less"
    ELSE "Greater"

\* C22: cmp_str is the lexicographic order of the bytes; cmp_lfs is a total
\* order (Equal only for equal paths, Less one way exactly when Greater the
\* other way, transitive); the two agree on every pair in which neither
\* path is a proper prefix of the other, and differ on every pair in which
\* one is, where cmp_lfs has the longer path Less than the shorter.
C22_Orderings ==
    /\ pout.ctor \in {"cmp_str", "both"} =>
        \A ij \in CmpPairs : pout.str[ij] = LexOrder(pin[ij[1]], pin[ij[2]])
    /\ pout.ctor \in {"cmp_lfs", "both"} =>
        /\ \A ij \in CmpPairs :
            /\ pout.lfs[ij] \in {"Less", "Equal", "Greater"}
            /\ pout.lfs[ij] = "Equal" <=> pin[ij[1]] = pin[ij[2]]
            /\ pout.lfs[ij] = "Less" <=> pout.lfs[<<ij[2], ij[1]>>] = "Greater"
        /\ \A i, j, k \in 1..3 :
            pout.lfs[<<i, j>>] = "Less" /\ pout.lfs[<<j, k>>] = "Less"
                => pout.lfs[<<i, k>>] = "Less"
    /\ pout.ctor = "both" =>
        \A ij \in CmpPairs :
            LET a == pin[ij[1]]
                b == pin[ij[2]]
            IN  IF ProperPrefix(a, b)
                THEN pout.lfs[ij] = "Greater" /\ pout.str[ij] = "Less"
                ELSE IF ProperPrefix(b, a)
                THEN pout.lfs[ij] = "Less" /\ pout.str[ij] = "Greater"
                ELSE pout.lfs[ij] = pout.str[ij]

\* C22 witness: "a", "ab" and "b" have been compared both ways: cmp_str has
\* "a" before "ab" before "b", cmp_lfs has "ab" before "a" before "b".
C22_Witness ==
    /\ pout.ctor = "both"
    /\ pin = <<<<LETTER_A>>, <<LETTER_A, LETTER_B>>, <<LETTER_B>>>>
    /\ pout.str[<<1, 2>>] = "Less" /\ pout.str[<<2, 3>>] = "Less"
    /\ pout.lfs[<<2, 1>>] = "Less" /\ pout.lfs[<<1, 3>>] = "Less"
    /\ pout.lfs[<<2, 3>>] = "Less"

(***************************************************************************)
(* SpecOrder: entries are created in the root in every order, then the      *)
(* root is iterated with next, tell, seek and rewind.  src/src/lib.rs has   *)
(* the calls on a directory handle that fs.rs leaves out.                   *)
(*   pin   the names created, in the order of their creation                *)
(*   pout  the iteration: the entries yielded since the handle was last     *)
(*         positioned (seg) at index from, the listing as first yielded     *)
(*         (first), the index at which None first came (total, -1 before),  *)
(*         the cursors recorded with the index they were recorded at        *)
(***************************************************************************)
FsErrorCodes ==
    {IO, CORRUPTION, NO_SUCH_ENTRY, ENTRY_ALREADY_EXISTED, PATH_NOT_DIR, PATH_IS_DIR,
     DIR_NOT_EMPTY, BAD_FILE_DESCRIPTOR, -27, INVALID, NO_SPACE, -12}

\* fn lfs_to_fserror: Err(e) with e outside FsErrorCodes is FsError::Unknown(e)
lfs_to_fserror(lfs_error) == IF lfs_error = OK THEN Ok(Unit) ELSE Err(lfs_error)

\* fn lfs_to_usize_fserror
lfs_to_usize_fserror(lfs_error) ==
    LET err == lfs_to_fserror(lfs_error)
    IN  IF err.ok THEN Ok(0)
        ELSE IF err.e \notin FsErrorCodes THEN Ok(err.e)
        ELSE err

\* LittleFs::dir_tell with the return code taken for an error code only
LittleFs_dir_tell_unit(f, hid) ==
    LET r == lfs_dir_tell(f, hid)
        e == lfs_to_fserror(r.rc)
    IN  [res |-> IF e.ok \/ e.e \notin FsErrorCodes THEN Ok(0) ELSE e, fs |-> r.fs]

\* LittleFs::dir_tell
LittleFs_dir_tell(f, hid) ==
    LET r == lfs_dir_tell(f, hid) IN [res |-> lfs_to_usize_fserror(r.rc), fs |-> r.fs]

\* LittleFs::dir_seek.  offset as u32 is the same number for an offset that
\* is not negative, as every cursor that dir_tell returns is.
LittleFs_dir_seek(f, hid, offset) ==
    LET r == lfs_dir_seek(f, hid, offset)
    IN  [res |-> lfs_to_fserror(r.rc), fs |-> r.fs]

\* LittleFs::dir_rewind
LittleFs_dir_rewind(f, hid) ==
    LET r == lfs_dir_rewind(f, hid) IN [res |-> lfs_to_fserror(r.rc), fs |-> r.fs]

OrderSteps == 3
OrderMoves == 2
OrderTells == 2
OrderNames == {<<LETTER_A>>, <<LETTER_A, LETTER_B>>, <<LETTER_B>>}
OrderKinds == {"file", "dir"}
NoIteration ==
    [ctor |-> "none", from |-> 0, seg |-> <<>>, ended |-> FALSE, first |-> <<>>,
     total |-> -1, tells |-> {}, moves |-> 0, failed |-> FALSE]

OrderInit ==
    /\ DevIdle
    /\ pin = <<>>
    /\ pout = NoIteration
    /\ fs = Formatted(EmptyTree)
    /\ stack = <<>>
    /\ last = NoCall
    /\ wrote = NoWrite
    /\ steps = OrderSteps

\* One call: the state after it and the record of it.
OrderCall(op, path, n, r, cost) ==
    /\ fs' = r.fs
    /\ last' = Rec(op, path, <<>>, <<>>, n, r.res, fs)
    /\ steps' = steps - cost
    /\ UNCHANGED <<wrote, devVars>>

\* Filesystem::create_dir or Filesystem::write of a name in the root, before
\* the iteration
OrderCreate ==
    /\ Len(stack) = 1
    /\ pout.ctor = "none"
    /\ steps > 0
    /\ \E name \in OrderNames, kind \in OrderKinds :
          LET path == <<SLASH>> \o name
              r == IF kind = "dir" THEN Filesystem_create_dir(fs, path)
                   ELSE Filesystem_write(fs, path, <<>>)
          IN  /\ OrderCall(IF kind = "dir" THEN "create_dir" ELSE "write", path, 0, r, 1)
              /\ pin' = IF <<name>> \in DOMAIN r.fs.tree /\ <<name>> \notin DOMAIN fs.tree
                        THEN Append(pin, name) ELSE pin
    /\ UNCHANGED <<pout, stack>>

\* Filesystem::read_dir of the root
OrderReadDir ==
    /\ Len(stack) = 1
    /\ pout.ctor = "none"
    /\ LET hid == NewHid(fs)
           r == Filesystem_read_dir(fs, hid, <<SLASH>>)
       IN  /\ OrderCall("read_dir", <<SLASH>>, hid, r, 0)
           /\ stack' = IF r.res.ok THEN Append(stack, Frame("dir", hid, <<SLASH>>)) ELSE stack
           /\ pout' = IF r.res.ok THEN [NoIteration EXCEPT !.ctor = "iter"] ELSE pout
    /\ UNCHANGED pin

\* ReadDir::next, until it has returned None
OrderNext ==
    /\ Len(stack) = 2
    /\ ~pout.ended
    /\ LET r == ReadDir_next(fs, Top.hid, Top.path)
           at == pout.from + Len(pout.seg)
       IN  /\ OrderCall("next", Top.path, Top.hid,
                        [res |-> IF r.opt = "SomeErr" THEN Err(r.e) ELSE Ok(r.opt), fs |-> r.fs], 0)
           /\ pout' = [pout EXCEPT
                !.seg = IF r.opt = "SomeOk" THEN Append(@, r.entry) ELSE @,
                !.first = IF r.opt = "SomeOk" /\ at = Len(@) THEN Append(@, r.entry) ELSE @,
                !.ended = r.opt = "None",
                !.total = IF r.opt = "None" /\ @ = -1 THEN at ELSE @,
                !.failed = @ \/ r.opt = "SomeErr"]
    /\ UNCHANGED <<pin, stack>>

\* dir_tell: the cursor is recorded with the number of entries yielded
OrderTell ==
    /\ Len(stack) = 2
    /\ Cardinality(pout.tells) < OrderTells
    /\ LET r == LittleFs_dir_tell(fs, Top.hid)
           at == pout.from + Len(pout.seg)
       IN  /\ \A c \in pout.tells : c[1] # at
           /\ OrderCall("tell", Top.path, Top.hid, r, 0)
           /\ pout' = [pout EXCEPT !.tells = IF r.res.ok THEN @ \cup {<<at, r.res.v>>} ELSE @,
                                   !.failed = @ \/ ~r.res.ok]
    /\ UNCHANGED <<pin, stack>>

\* dir_seek to a cursor recorded before
OrderSeek ==
    /\ Len(stack) = 2
    /\ pout.moves < OrderMoves
    /\ \E c \in pout.tells :
          LET r == LittleFs_dir_seek(fs, Top.hid, c[2])
          IN  /\ OrderCall("seek", Top.path, c[1], r, 0)
              /\ pout' = [pout EXCEPT !.from = c[1], !.seg = <<>>, !.ended = FALSE,
                                      !.moves = @ + 1, !.failed = @ \/ ~r.res.ok]
    /\ UNCHANGED <<pin, stack>>

\* dir_rewind
OrderRewind ==
    /\ Len(stack) = 2
    /\ pout.moves < OrderMoves
    /\ LET r == LittleFs_dir_rewind(fs, Top.hid)
       IN  /\ OrderCall("rewind", Top.path, Top.hid, r, 0)
           /\ pout' = [pout EXCEPT !.from = 0, !.seg = <<>>, !.ended = FALSE,
                                   !.moves = @ + 1, !.failed = @ \/ ~r.res.ok]
    /\ UNCHANGED <<pin, stack>>

\* Filesystem::read_dir_and_then from the return of f, which f makes when
\* next has returned None
OrderReturn ==
    /\ Len(stack) = 2
    /\ pout.ended
    /\ LET r == read_dir_and_then_finish(fs, Top.hid, Ok(Unit))
       IN  OrderCall("read_dir_and_then", Top.path, Top.hid, r, 0)
    /\ stack' = Pop
    /\ UNCHANGED <<pin, pout>>

\* Filesystem::mount_and_then returns at any time before the iteration
OrderUnmount ==
    /\ pout.ctor = "none"
    /\ MountReturn

OrderNextStep ==
    \/ MountAndThen
    \/ OrderUnmount
    \/ OrderCreate
    \/ OrderReadDir
    \/ OrderNext
    \/ OrderTell
    \/ OrderSeek
    \/ OrderRewind
    \/ OrderReturn
SpecOrder == OrderInit /\ [][OrderNextStep]_vars

\* C23: of the entries an iteration yields after "." and "..", each name is
\* Less than the name yielded next under Path::cmp_lfs, in whatever order
\* the entries were created.
C23_IterationOrder ==
    pout.ctor = "iter" =>
        /\ \A i \in 3..(Len(pout.first) - 1) :
              cmp_lfs(pout.first[i].file_name, pout.first[i + 1].file_name) = "Less"
        /\ \A i \in 1..(Len(pout.seg) - 1) :
              pout.from + i >= 3 =>
                  cmp_lfs(pout.seg[i].file_name, pout.seg[i + 1].file_name) = "Less"

\* C23 witness: "b", "a" and "ab" were created in this order and an
\* iteration of the root has yielded ".", "..", "ab", "a", "b" and then None.
C23_Witness ==
    /\ pin = <<<<LETTER_B>>, <<LETTER_A>>, <<LETTER_A, LETTER_B>>>>
    /\ pout.ctor = "iter"
    /\ pout.total = 5
    /\ [i \in 1..5 |-> pout.first[i].file_name]
          = <<<<DOT>>, <<DOT, DOT>>, <<LETTER_A, LETTER_B>>, <<LETTER_A>>, <<LETTER_B>>>>

\* C24: no call on the iterator fails; after a seek to the cursor that tell
\* gave when k entries had been yielded, the calls of next yield the entries
\* from index k on as the iteration first yielded them, and None after the
\* last of them, n - k entries for a listing of n; after a rewind they yield
\* the listing from its first entry ".".
C24_CursorRoundTrip ==
    pout.ctor = "iter" =>
        /\ ~pout.failed
        /\ pout.from + Len(pout.seg) <= Len(pout.first)
        /\ pout.seg = SubSeq(pout.first, pout.from + 1, pout.from + Len(pout.seg))
        /\ pout.total # -1 => Len(pout.first) = pout.total
        /\ pout.ended => pout.from + Len(pout.seg) = pout.total
        /\ pout.first # <<>> => pout.first[1].file_name = <<DOT>>
        /\ last.op \in {"seek", "rewind"} => last.res.ok /\ last.res.v = Unit
        /\ last.op = "rewind" => pout.from = 0

\* C24 witness: of a listing of 5 entries, the cursor recorded after 3 of
\* them was sought after the iteration had gone further, and the 2 entries
\* that remain were yielded, then None.
C24_Witness ==
    /\ pout.ctor = "iter"
    /\ pout.total = 5
    /\ pout.from = 3
    /\ pout.moves >= 1
    /\ Len(pout.seg) = 2
    /\ pout.ended

\* C24 witness: after the whole listing a rewind was made and "." was
\* yielded again.
C24_WitnessRewind ==
    /\ pout.ctor = "iter"
    /\ pout.total # -1
    /\ pout.total = Len(pout.first)
    /\ pout.moves >= 1
    /\ pout.from = 0
    /\ Len(pout.seg) >= 1
    /\ pout.seg[1].file_name = <<DOT>>

(***************************************************************************)
(* SpecSeek: one file opened by hand with options built call by call, then  *)
(* written, resized with set_len, and its position moved and read with      *)
(* seek.                                                                    *)
(***************************************************************************)
\* OpenOptions::new, read, write, create, truncate
OpenOptions_new == {}
OpenOptions_set(self, flag, on) == IF on THEN self \cup {flag} ELSE self \ {flag}

\* OpenOptions::append that leaves the options as they are
OpenOptions_append_ignored(self, append) == self

\* OpenOptions::append
OpenOptions_append(self, append) ==
    IF append THEN self \cup {"APPEND"} ELSE self \ {"APPEND"}

\* SeekFrom::Start(u32), End(i32), Current(i32), and SeekFrom::off, whence
SeekFrom_Start(u) == [from |-> "Start", o |-> u]
SeekFrom_End(i) == [from |-> "End", o |-> i]
SeekFrom_Current(i) == [from |-> "Current", o |-> i]
SeekFrom_off(self) == self.o
SeekFrom_whence(self) ==
    IF self.from = "Start" THEN 0 ELSE IF self.from = "End" THEN 2 ELSE 1

\* File::set_len that does not call the backend
File_set_len_noop(f, hid, size) == [res |-> Ok(Unit), fs |-> f]

\* File::set_len.  size as u32 is the same number for the sizes of the model.
File_set_len(f, hid, size) ==
    LET r == lfs_file_truncate(f, hid, size) IN [res |-> result_from(Unit, r.rc), fs |-> r.fs]

\* File::len
File_len(f, hid) ==
    LET r == lfs_file_size(f, hid) IN [res |-> u32_result(r.rc), fs |-> r.fs]

\* impl io::Seek for File: seek
File_seek(f, hid, pos) ==
    LET r == lfs_file_seek(f, hid, SeekFrom_off(pos), SeekFrom_whence(pos))
    IN  [res |-> u32_result(r.rc), fs |-> r.fs]

SeekSteps == 3
SeekNodes == 2
\* the options as the calls read(r).write(w).append(a).create(c).truncate(t)
\* build them
Options(r, w, a, c, t) ==
    OpenOptions_set(OpenOptions_set(OpenOptions_append(OpenOptions_set(
        OpenOptions_set(OpenOptions_new, "READ", r), "WRITE", w), a), "CREATE", c),
        "TRUNCATE", t)
\* what is asked of read, write, append, create, truncate
SeekOptions ==
    {<<TRUE, FALSE, FALSE, FALSE, FALSE>>,
     <<TRUE, TRUE, FALSE, FALSE, FALSE>>,
     <<FALSE, TRUE, FALSE, TRUE, TRUE>>,
     <<FALSE, TRUE, TRUE, FALSE, FALSE>>,
     <<TRUE, TRUE, TRUE, TRUE, FALSE>>}
SeekSizes == {0, 1, MaxLen + 1}
SeekMoves ==
    {SeekFrom_Start(0), SeekFrom_Start(1), SeekFrom_Start(MaxLen + 2),
     SeekFrom_End(0), SeekFrom_End(-1), SeekFrom_Current(0), SeekFrom_Current(-1)}

SeekInit ==
    /\ FsInit(SeekSteps)
    /\ fs.formatted
    /\ Cardinality(DOMAIN fs.tree) <= SeekNodes

\* OpenOptions::new() with its five calls, then open, one File at a time.
\* The frame keeps in start what was asked of the options.
SeekOpen ==
    /\ Len(stack) = 1
    /\ \E path \in HandlePaths, o \in SeekOptions :
          LET hid == Len(stack)
              r == OpenOptions_open(fs, hid, path, Options(o[1], o[2], o[3], o[4], o[5]))
          IN  /\ CallCost("open", path, <<>>, <<>>, hid, r, 0)
              /\ stack' = IF r.res.ok
                          THEN Append(stack, [Frame("file", hid, path) EXCEPT !.start = {o}])
                          ELSE stack

\* File::close
SeekClose ==
    /\ Len(stack) = 2
    /\ CallCost("file_close", Top.path, <<>>, <<>>, Top.hid, File_close(fs, Top.hid), 0)
    /\ stack' = Pop

\* File::write
SeekWrite ==
    /\ Len(stack) = 2
    /\ \E buf \in HandleDatas :
          Call("file_write", Top.path, <<>>, buf, Top.hid, File_write(fs, Top.hid, buf))
    /\ UNCHANGED stack

\* File::set_len
SeekSetLen ==
    /\ Len(stack) = 2
    /\ \E size \in SeekSizes :
          Call("set_len", Top.path, <<>>, <<size>>, Top.hid, File_set_len(fs, Top.hid, size))
    /\ UNCHANGED stack

\* File::seek
SeekSeek ==
    /\ Len(stack) = 2
    /\ \E pos \in SeekMoves :
          Call("seek", Top.path, <<>>, <<pos>>, Top.hid, File_seek(fs, Top.hid, pos))
    /\ UNCHANGED stack

SeekNext ==
    \/ MountAndThen
    \/ MountReturn
    \/ SeekOpen
    \/ SeekClose
    \/ SeekWrite
    \/ SeekSetLen
    \/ SeekSeek
SpecSeek == SeekInit /\ [][SeekNext]_vars

\* A buffer that holds every file of this specification
SeekCap == MaxLen + 2 + SeekSteps * MaxLen

\* The position of a File, as seek(SeekFrom::Current(0)) returns it
Tell(f, hid) == File_seek(f, hid, SeekFrom_Current(0)).res
\* The bytes of the file as the handle has them, and the bytes its path
\* holds once the File is closed
Bytes(f, hid) == HandleOf(f, hid).data
Closed(f, hid, path) == Filesystem_read(File_close(f, hid).fs, path, SeekCap).res

\* C25: after set_len(n) returned Ok on an open file, the length of the file
\* is n; its bytes are the first n of those it had when n is not more than
\* it had, and otherwise those it had followed by zeros; the position of the
\* handle is what it was, also when it is beyond the new length; the path
\* holds these bytes once the file is closed.
C25_SetLen ==
    last.op = "set_len" =>
        LET hid == last.n
            n == last.data[1]
            had == Bytes(last.pre, hid)
            now == IF n <= Len(had) THEN SubSeq(had, 1, n) ELSE had \o Rep(0, n - Len(had))
        IN  last.res.ok =>
                /\ File_len(fs, hid).res.ok
                /\ File_len(fs, hid).res.v = n
                /\ Bytes(fs, hid) = now
                /\ Tell(fs, hid) = Tell(last.pre, hid)
                /\ ~HandleOf(fs, hid).erred =>
                      /\ Closed(fs, hid, last.path).ok
                      /\ Closed(fs, hid, last.path).v = now

\* C25 witness: a file of 2 bytes with the position at 2 was shrunk to 1
\* byte; the position is still 2.
C25_Witness ==
    /\ last.op = "set_len"
    /\ last.res.ok
    /\ last.data = <<1>>
    /\ Len(Bytes(last.pre, last.n)) = 2
    /\ Tell(fs, last.n).ok
    /\ Tell(fs, last.n).v = 2
    /\ Len(Bytes(fs, last.n)) = 1

\* C25 witness: a file of 2 bytes that are not 0 was extended to 3 bytes.
C25_WitnessExtended ==
    /\ last.op = "set_len"
    /\ last.res.ok
    /\ Bytes(last.pre, last.n) = <<1, 1>>
    /\ Bytes(fs, last.n) = <<1, 1, 0>>

\* The File on top was opened with append(true)
Appending == \E o \in Top.start : o[3]

\* C26: a write through a handle opened with append puts the bytes after all
\* the bytes of the file, wherever the position was, and leaves the position
\* at the end; a write through a handle opened without append puts them at
\* the position, over the bytes that are there; every handle starts at
\* position 0, so a file opened for writing without append and truncate is
\* overwritten from its first byte unless the caller seeks to the end.
C26_Append ==
    /\ (last.op = "file_write" /\ last.res.ok) =>
        LET hid == last.n
            h == HandleOf(last.pre, hid)
            had == h.data
            buf == last.data
            at == Tell(last.pre, hid).v
            padded == IF at > Len(had) THEN had \o Rep(0, at - Len(had)) ELSE had
        IN  /\ last.res.v = Len(buf)
            /\ IF Appending
               THEN /\ Bytes(fs, hid) = had \o buf
                    /\ Tell(fs, hid) = Ok(Len(had) + Len(buf))
               ELSE /\ Bytes(fs, hid) = SubSeq(padded, 1, at) \o buf
                                          \o SubSeq(padded, at + Len(buf) + 1, Len(padded))
                    /\ Tell(fs, hid) = Ok(at + Len(buf))
    /\ (last.op = "open" /\ last.res.ok) => Tell(fs, last.n) = Ok(0)

\* C26 witness: a file of 2 bytes was opened with append, the position was
\* moved to 0, and a byte written then is the third byte of the file.
C26_Witness ==
    /\ last.op = "file_write"
    /\ last.res.ok
    /\ Appending
    /\ Tell(last.pre, last.n) = Ok(0)
    /\ Bytes(last.pre, last.n) = <<1, 1>>
    /\ Bytes(fs, last.n) = <<1, 1, 0>>

\* C26 witness: a file of 2 bytes was opened for writing without append and
\* truncate, and a byte written then is its first byte.
C26_WitnessOverwritten ==
    /\ last.op = "file_write"
    /\ last.res.ok
    /\ Top.start = {<<TRUE, TRUE, FALSE, FALSE, FALSE>>}
    /\ Bytes(last.pre, last.n) = <<1, 1>>
    /\ Bytes(fs, last.n) = <<0, 1>>

(***************************************************************************)
(* SpecChunk: files written whole and in chunks, read whole and in chunks.  *)
(***************************************************************************)
\* OpenSeekFrom::Start(u32), End(i32), and From<OpenSeekFrom> for SeekFrom
OpenSeekFrom_Start(u) == [open |-> "Start", o |-> u]
OpenSeekFrom_End(i) == [open |-> "End", o |-> i]
OpenSeekFrom_into(value) ==
    IF value.open = "Start" THEN SeekFrom_Start(value.o) ELSE SeekFrom_End(value.o)

\* Filesystem::read_chunk::<N> that leaves the buffer at its capacity
Filesystem_read_chunk_untruncated(f, path, pos, N) ==
    LET hid == NewHid(f)
        o == OpenOptions_open(f, hid, path, {"READ"})
        s == File_seek(o.fs, hid, OpenSeekFrom_into(pos))
        r == File_read(s.fs, hid, N)
        contents == r.buf \o Rep(0, N - Len(r.buf))
        l == File_len(r.fs, hid)
        cb == IF ~s.res.ok THEN [res |-> s.res, fs |-> s.fs]
              ELSE IF ~r.res.ok THEN [res |-> r.res, fs |-> r.fs]
              ELSE [res |-> l.res, fs |-> l.fs]
        c == open_and_then_finish(cb.fs, hid, cb.res)
    IN  IF ~o.res.ok THEN [res |-> o.res, fs |-> o.fs]
        ELSE [res |-> IF c.res.ok THEN Ok([data |-> contents, len |-> c.res.v]) ELSE c.res,
              fs |-> c.fs]

\* Filesystem::read_chunk::<N>: the buffer is resized to its capacity N,
\* read fills its first read_n bytes, truncate(read_n) drops the rest; the
\* callback returns file.len()
Filesystem_read_chunk(f, path, pos, N) ==
    LET hid == NewHid(f)
        o == OpenOptions_open(f, hid, path, {"READ"})
        s == File_seek(o.fs, hid, OpenSeekFrom_into(pos))
        r == File_read(s.fs, hid, N)
        contents == Take(r.buf \o Rep(0, N - Len(r.buf)), r.res.v)
        l == File_len(r.fs, hid)
        cb == IF ~s.res.ok THEN [res |-> s.res, fs |-> s.fs]
              ELSE IF ~r.res.ok THEN [res |-> r.res, fs |-> r.fs]
              ELSE [res |-> l.res, fs |-> l.fs]
        c == open_and_then_finish(cb.fs, hid, cb.res)
    IN  IF ~o.res.ok THEN [res |-> o.res, fs |-> o.fs]
        ELSE [res |-> IF c.res.ok THEN Ok([data |-> contents, len |-> c.res.v]) ELSE c.res,
              fs |-> c.fs]

\* A caller that reads a file chunk by chunk: read_chunk::<N> at Start(at),
\* then at Start(at + N), until a chunk ends at the length that came with it
RECURSIVE ReadChunks(_, _, _, _, _)
ReadChunks(f, path, N, at, acc) ==
    The({IF ~r.res.ok THEN r
         ELSE IF at + Len(r.res.v.data) >= r.res.v.len \/ r.res.v.data = <<>>
         THEN [res |-> Ok(acc \o r.res.v.data), fs |-> r.fs]
         ELSE ReadChunks(r.fs, path, N, at + N, acc \o r.res.v.data) :
         r \in {Filesystem_read_chunk(f, path, OpenSeekFrom_Start(at), N)}})

ChunkSteps == 2
ChunkNodes == 2
\* the one path of the calls
ChunkPaths == {PathStr(<<NamePool[1]>>)}
ChunkCaps == {1, MaxLen + 2}
ChunkPositions ==
    {OpenSeekFrom_Start(0), OpenSeekFrom_Start(1), OpenSeekFrom_Start(MaxLen + 1),
     OpenSeekFrom_End(0), OpenSeekFrom_End(-1), OpenSeekFrom_End(-(MaxLen + 1))}

ChunkInit ==
    /\ FsInit(ChunkSteps)
    /\ fs.formatted
    /\ Cardinality(DOMAIN fs.tree) <= ChunkNodes

\* Filesystem::write
ChunkWrite ==
    /\ Len(stack) = 1
    /\ \E path \in ChunkPaths, contents \in Datas :
          Call("write", path, <<>>, contents, 0, Filesystem_write(fs, path, contents))
    /\ UNCHANGED stack

\* Filesystem::read_chunk::<N>
ChunkReadChunk ==
    /\ Len(stack) = 1
    /\ \E path \in ChunkPaths, pos \in ChunkPositions, N \in ChunkCaps :
          CallCost("read_chunk", path, <<>>, <<pos>>, N,
                   Filesystem_read_chunk(fs, path, pos, N), 0)
    /\ UNCHANGED stack

\* The caller that reads chunk by chunk from offset 0
ChunkReadChunks ==
    /\ Len(stack) = 1
    /\ \E path \in ChunkPaths, N \in ChunkCaps :
          CallCost("read_chunks", path, <<>>, <<>>, N, ReadChunks(fs, path, N, 0, <<>>), 0)
    /\ UNCHANGED stack

\* Filesystem::write_chunk: OpenOptions::new().read(true).write(true)
\* .truncate(false), and seek then write_all as the callback
Filesystem_write_chunk(f, path, contents, pos) ==
    LET hid == NewHid(f)
        o == OpenOptions_open(f, hid, path,
                 OpenOptions_set(OpenOptions_set(OpenOptions_set(OpenOptions_new,
                     "READ", TRUE), "WRITE", TRUE), "TRUNCATE", FALSE))
        s == File_seek(o.fs, hid, OpenSeekFrom_into(pos))
        w == write_all(s.fs, hid, contents)
        cb == IF ~s.res.ok THEN [res |-> s.res, fs |-> s.fs] ELSE w
        c == open_and_then_finish(cb.fs, hid, cb.res)
    IN  IF ~o.res.ok THEN [res |-> o.res, fs |-> o.fs]
        ELSE [res |-> IF c.res.ok THEN Ok(Unit) ELSE c.res, fs |-> c.fs]

\* Filesystem::write_chunk
ChunkWriteChunk ==
    /\ Len(stack) = 1
    /\ \E path \in ChunkPaths, contents \in HandleDatas, pos \in ChunkPositions :
          Call("write_chunk", path, <<pos>>, contents, 0,
               Filesystem_write_chunk(fs, path, contents, pos))
    /\ UNCHANGED stack

\* Filesystem::read::<N>
ChunkRead ==
    /\ Len(stack) = 1
    /\ \E path \in ChunkPaths, N \in ChunkCaps :
          CallCost("read", path, <<>>, <<>>, N, Filesystem_read(fs, path, N), 0)
    /\ UNCHANGED stack

ChunkNext ==
    \/ MountAndThen
    \/ MountReturn
    \/ ChunkWrite
    \/ ChunkWriteChunk
    \/ ChunkReadChunk
    \/ ChunkReadChunks
    \/ ChunkRead
SpecChunk == ChunkInit /\ [][ChunkNext]_vars

\* Whether path is a file of the tree of f, the bytes of that file, and the
\* offset from the start that pos is for a file of len bytes
IsFile(f, path) == Split(path) \in DOMAIN f.tree /\ f.tree[Split(path)].type = "file"
FileBytes(f, path) == f.tree[Split(path)].data
OffsetOf(pos, len) == IF pos.open = "Start" THEN pos.o ELSE len + pos.o

\* C27: read_chunk::<N>(path, pos) that returns Ok returns the length of
\* the file and the min(N, len - pos) bytes of the file from offset pos, no
\* bytes when pos is at the end or after it, and changes nothing; the
\* chunks read at the offsets 0, N, 2N, ... are together the whole file.
C27_ReadChunk ==
    /\ (last.op = "read_chunk" /\ last.res.ok) =>
          LET had == FileBytes(last.pre, last.path)
              len == Len(had)
              at == OffsetOf(last.data[1], len)
              N == last.n
              k == IF at >= len THEN 0 ELSE IF N < len - at THEN N ELSE len - at
          IN  /\ IsFile(last.pre, last.path)
              /\ at >= 0
              /\ last.res.v.len = len
              /\ last.res.v.data = SubSeq(had, at + 1, at + k)
              /\ fs = last.pre
    /\ last.op = "read_chunks" =>
          /\ last.res.ok <=> IsFile(last.pre, last.path)
          /\ last.res.ok => last.res.v = FileBytes(last.pre, last.path)
          /\ fs = last.pre

\* C27 witness: of a file of 3 bytes that are not all the same, a chunk of
\* capacity 4 read from offset 1 has the last 2 bytes.
C27_Witness ==
    /\ last.op = "read_chunk"
    /\ last.res.ok
    /\ last.n = MaxLen + 2
    /\ last.data[1] = OpenSeekFrom_Start(1)
    /\ last.res.v.len = 3
    /\ Len(last.res.v.data) = 2
    /\ last.res.v.data[1] # last.res.v.data[2]

\* C27 witness: a chunk asked for at the end of a file that has bytes is
\* empty and comes with the length of the file.
C27_WitnessAtEnd ==
    /\ last.op = "read_chunk"
    /\ last.res.ok
    /\ last.data[1] = OpenSeekFrom_End(0)
    /\ last.res.v.len = MaxLen
    /\ last.res.v.data = <<>>

\* C27 witness: a file of 3 bytes was read whole in chunks of 1 byte.
C27_WitnessChunks ==
    /\ last.op = "read_chunks"
    /\ last.res.ok
    /\ last.n = 1
    /\ Len(last.res.v) = 3
    /\ last.res.v[1] # last.res.v[3]

\* C28, as stated: write_chunk(path, data, pos) on a path that does not
\* exist fails and the path does not exist afterwards; it fails when pos is
\* not an offset of the file or its end; when it returns Ok the bytes of
\* the file from pos are data and every other byte the file had is as it
\* was.
C28_AsStated ==
    last.op = "write_chunk" =>
        LET p == Split(last.path)
            data == last.data
        IN  /\ p \notin DOMAIN last.pre.tree =>
                  ~last.res.ok /\ p \notin DOMAIN fs.tree
            /\ IsFile(last.pre, last.path) =>
                  LET had == FileBytes(last.pre, last.path)
                      at == OffsetOf(last.path2[1], Len(had))
                  IN  /\ (at < 0 \/ at > Len(had)) => ~last.res.ok
                      /\ last.res.ok =>
                            /\ IsFile(fs, last.path)
                            /\ at >= 0
                            /\ SubSeq(FileBytes(fs, last.path), at + 1, at + Len(data)) = data
                            /\ \A i \in 1..Len(had) :
                                  i \notin (at + 1)..(at + Len(data)) =>
                                      FileBytes(fs, last.path)[i] = had[i]
            /\ last.res.ok => IsFile(last.pre, last.path)

\* C28 witness: write_chunk at Start(3) on a file of 2 bytes returned Ok;
\* the file has the 2 bytes, a zero, and the bytes written.
C28_Witness ==
    /\ last.op = "write_chunk"
    /\ last.res.ok
    /\ last.path2[1] = OpenSeekFrom_Start(MaxLen + 1)
    /\ IsFile(last.pre, last.path)
    /\ FileBytes(last.pre, last.path) = Rep(1, MaxLen)
    /\ FileBytes(fs, last.path) = Rep(1, MaxLen) \o <<0>> \o last.data

\* C28 witness: write_chunk on a path that does not exist failed and the
\* path does not exist.
C28_WitnessMissing ==
    /\ last.op = "write_chunk"
    /\ ~last.res.ok
    /\ Split(last.path) \notin DOMAIN last.pre.tree
    /\ Split(last.path) \notin DOMAIN fs.tree

\* C29, as stated: read::<N>(path) that returns Ok returns the bytes of
\* the file, all of them, for every capacity N.
C29_AsStated ==
    (last.op = "read" /\ last.res.ok) =>
        /\ IsFile(last.pre, last.path)
        /\ Len(last.res.v) = Len(FileBytes(last.pre, last.path))
        /\ last.res.v = FileBytes(last.pre, last.path)

\* C29 witness: read::<1> of a file of 2 bytes returned Ok with 1 byte.
C29_Witness ==
    /\ last.op = "read"
    /\ last.res.ok
    /\ last.n = 1
    /\ Len(FileBytes(last.pre, last.path)) = MaxLen
    /\ Len(last.res.v) = 1

(***************************************************************************)
(* SpecCodes: the return codes of the backend as the front end maps them.   *)
(***************************************************************************)
CodeSpan == 90
Codes == (-CodeSpan)..CodeSpan
\* what a call hands to result_from as the value of its success: the unit,
\* or the name of what it has built
ReturnValues == {Unit, "file", "metadata"}
NoMapping == [done |-> {}, new |-> NoError, from |-> Ok(Unit), u32 |-> Ok(Unit)]

\* pin is the return code and the value of the success
CodesInit ==
    /\ DevIdle
    /\ pin \in Codes \X ReturnValues
    /\ pout = NoMapping
    /\ fs = "unused" /\ stack = <<>> /\ last = "unused" /\ wrote = "unused" /\ steps = 0

\* Error::new(code)
CallErrorNew ==
    /\ "new" \notin pout.done
    /\ pout' = [pout EXCEPT !.done = @ \cup {"new"}, !.new = Error_new(pin[1])]
    /\ UNCHANGED <<pin, fsVars, devVars>>

\* result_from(return_value, error_code)
CallResultFrom ==
    /\ "from" \notin pout.done
    /\ pout' = [pout EXCEPT !.done = @ \cup {"from"}, !.from = result_from(pin[2], pin[1])]
    /\ UNCHANGED <<pin, fsVars, devVars>>

\* u32_result(return_value)
CallU32Result ==
    /\ "u32" \notin pout.done
    /\ pout' = [pout EXCEPT !.done = @ \cup {"u32"}, !.u32 = u32_result(pin[1])]
    /\ UNCHANGED <<pin, fsVars, devVars>>

CodesNext ==
    \/ CallErrorNew
    \/ CallResultFrom
    \/ CallU32Result
SpecCodes == CodesInit /\ [][CodesNext]_vars

\* C30: a negative return code becomes an Err whose code is that number,
\* from result_from and from u32_result; a return code from 0 becomes Ok,
\* of the value of the call from result_from and of the return code as the
\* count from u32_result; Error::new(c) is None exactly when c >= 0 and is
\* otherwise an Error whose code is c.
C30_ReturnCodes ==
    LET c == pin[1]
    IN  /\ "new" \in pout.done =>
              /\ ~pout.new.some <=> c >= 0
              /\ pout.new.some => Error_code(pout.new.code) = c
        /\ "from" \in pout.done =>
              IF c < 0 THEN ~pout.from.ok /\ Error_code(pout.from.e) = c
              ELSE pout.from.ok /\ pout.from.v = pin[2]
        /\ "u32" \in pout.done =>
              IF c < 0 THEN ~pout.u32.ok /\ Error_code(pout.u32.e) = c
              ELSE pout.u32.ok /\ pout.u32.v = c

\* C30 witness: the code NO_SPACE went through the three functions and came
\* out as an error with the code -28.
C30_Witness ==
    /\ pin[1] = NO_SPACE
    /\ pout.done = {"new", "from", "u32"}
    /\ pout.new = SomeError(NO_SPACE)
    /\ pout.from = Err(NO_SPACE)
    /\ pout.u32 = Err(NO_SPACE)

\* C30 witness: the code 0 went through the three functions and came out
\* as no error, as Ok of the unit and as Ok of the count 0.
C30_WitnessZero ==
    /\ pin = <<0, Unit>>
    /\ pout.done = {"new", "from", "u32"}
    /\ pout.new = NoError
    /\ pout.from = Ok(Unit)
    /\ pout.u32 = Ok(0)

(***************************************************************************)
(* SpecPathBuf: one PathBuf, made and changed by new, clear, push, From and *)
(* try_from, and Path::join on the path it holds.                           *)
(***************************************************************************)
\* The outcome of a call that can panic: the PathBuf after it
Done(pb) == [panic |-> FALSE, pb |-> pb]
Panic(pb) == [panic |-> TRUE, pb |-> pb]

\* PathBuf::new and PathBuf::clear
PathBuf_new == [buf |-> Rep(NUL, MAX_SIZE_PLUS_ONE), len |-> 1]
PathBuf_clear(self) == [buf |-> Rep(NUL, MAX_SIZE_PLUS_ONE), len |-> 1]

\* impl From<&Path> for PathBuf: the bytes of the path and its NUL are
\* copied to the start of a zeroed buffer
PathBuf_from(path) ==
    IF ~(Len(path) <= MAX_SIZE_PLUS_ONE) THEN Panic(PathBuf_new)
    ELSE Done([buf |-> [i \in 1..MAX_SIZE_PLUS_ONE |->
                           IF i <= Len(path) THEN path[i] ELSE NUL],
               len |-> Len(path) + 1])

\* The bytes of the buffer after src, with a '/' before it if sep, has been
\* written from the cell of the NUL at len, and a NUL after it
Pushed(self, src, sep) ==
    LET start == self.len - 1 + sep
    IN  [buf |-> [i \in 1..MAX_SIZE_PLUS_ONE |->
                     IF sep = 1 /\ i = self.len THEN SLASH
                     ELSE IF i > start /\ i <= start + Len(src) THEN src[i - start]
                     ELSE IF i = start + Len(src) + 1 THEN NUL
                     ELSE self.buf[i]],
         len |-> self.len + sep + Len(src)]

\* PathBuf::push that never puts a separator
PathBuf_push_noseparator(self, path) ==
    IF path = <<>> THEN Done(self)
    ELSE IF path = <<SLASH>>
    THEN Done([buf |-> [self.buf EXCEPT ![1] = SLASH, ![2] = NUL], len |-> 2])
    ELSE IF ~(self.len + Len(path) <= MAX_SIZE_PLUS_ONE) THEN Panic(self)
    ELSE Done(Pushed(self, path, 0))

\* PathBuf::push without its assertion: the bytes that do not fit in the
\* buffer are written after it, and len counts them
PathBuf_push_unasserted(self, path) ==
    LET held == PathBuf_bytes(self)
        needs_separator == held # <<>> /\ held[Len(held)] # SLASH
    IN  IF path = <<>> THEN Done(self)
        ELSE IF path = <<SLASH>>
        THEN Done([buf |-> [self.buf EXCEPT ![1] = SLASH, ![2] = NUL], len |-> 2])
        ELSE Done(Pushed(self, path, IF needs_separator THEN 1 ELSE 0))

\* PathBuf::push, on the buffer and len
PathBuf_push_buf(self, path) ==
    LET held == PathBuf_bytes(self)
        needs_separator == held # <<>> /\ held[Len(held)] # SLASH
        slen == Len(path)
        sep == IF needs_separator THEN 1 ELSE 0
    IN  IF path = <<>> THEN Done(self)
        ELSE IF path = <<SLASH>>
        THEN Done([buf |-> [self.buf EXCEPT ![1] = SLASH, ![2] = NUL], len |-> 2])
        ELSE IF ~(self.len + slen + sep <= MAX_SIZE_PLUS_ONE) THEN Panic(self)
        ELSE Done(Pushed(self, path, sep))

\* Path::join, with the PathBuf it builds
Path_join_buf(self, path) ==
    LET p == PathBuf_from(self)
    IN  IF p.panic THEN p ELSE PathBuf_push_buf(p.pb, path)

\* impl TryFrom<&[u8]> for PathBuf, with the PathBuf it builds
PathBuf_try_from_buf(input) ==
    LET r == PathBuf_try_from(input)
    IN  [res |-> r, pb |-> IF r.ok THEN PathBufOf(r.bytes) ELSE PathBuf_new]

BufSteps == 3
BufShort == 2
\* the paths handed to push, From and join
BufPaths ==
    {<<>>, <<SLASH>>, <<LETTER_A>>, <<LETTER_A, SLASH>>, <<SLASH, LETTER_A>>}
    \cup {Rep(LETTER_A, n) : n \in {MAX_SIZE - BufShort, MAX_SIZE - 1, MAX_SIZE}}
\* the byte strings handed to try_from
BufBytes ==
    {<<>>, <<NUL>>, <<LETTER_A, NUL>>, <<NUL, LETTER_A>>, <<UTF8_LEAD, UTF8_CONT>>,
     Rep(LETTER_A, MAX_SIZE) \o <<NUL>>, Rep(LETTER_A, MAX_SIZE + 1)}

\* pin is the argument of the last call; pout has the PathBuf, the PathBuf
\* before the last call, and whether the call panicked
BufState(ctor, pre, r, steps_left) ==
    [ctor |-> ctor, pre |-> pre, pb |-> r.pb, panic |-> r.panic, n |-> steps_left]

PathBufInit ==
    /\ DevIdle
    /\ pin = <<>>
    /\ pout = BufState("new", PathBuf_new, Done(PathBuf_new), BufSteps)
    /\ fs = "unused" /\ stack = <<>> /\ last = "unused" /\ wrote = "unused" /\ steps = 0

BufCall(ctor, arg, r) ==
    /\ ~pout.panic
    /\ pout.n > 0
    /\ pin' = arg
    /\ pout' = BufState(ctor, pout.pb, r, pout.n - 1)
    /\ UNCHANGED <<fsVars, devVars>>

CallNew == BufCall("new", <<>>, Done(PathBuf_new))
CallClear == BufCall("clear", <<>>, Done(PathBuf_clear(pout.pb)))
CallPush == \E path \in BufPaths : BufCall("push", path, PathBuf_push_buf(pout.pb, path))
CallFrom == \E path \in BufPaths : BufCall("from", path, PathBuf_from(path))
\* the PathBuf becomes the one that join returns
CallJoin ==
    \E path \in BufPaths :
        LET r == Path_join_buf(PathBuf_bytes(pout.pb), path)
        IN  BufCall("join", path, IF r.panic THEN Panic(pout.pb) ELSE r)
\* a try_from that fails leaves the PathBuf there was
CallTryFrom ==
    \E bytes \in BufBytes :
        LET r == PathBuf_try_from_buf(bytes)
        IN  BufCall(IF r.res.ok THEN "try_from" ELSE "try_from_err", bytes,
                    Done(IF r.res.ok THEN r.pb ELSE pout.pb))

PathBufNext ==
    \/ CallNew
    \/ CallClear
    \/ CallPush
    \/ CallFrom
    \/ CallJoin
    \/ CallTryFrom
SpecPathBuf == PathBufInit /\ [][PathBufNext]_vars

\* a followed by b as the claim has it
JoinAsStated(a, b) ==
    IF b = <<>> THEN a
    ELSE IF b = <<SLASH>> THEN <<SLASH>>
    ELSE IF a = <<>> THEN b
    ELSE IF a[Len(a)] = SLASH THEN a \o b
    ELSE a \o <<SLASH>> \o b

\* C31: a.join(b), and the push of b onto a PathBuf that holds a, when it
\* returns, yields a when b is empty, "/" when b is "/", b when a is empty,
\* a followed by b when a ends with '/', and otherwise a, one '/', then b;
\* these are the bytes that PathBuf_push has for the paths of the file
\* system.
C31_Join ==
    (pout.ctor \in {"push", "join"} /\ ~pout.panic) =>
        /\ PathBuf_bytes(pout.pb) = JoinAsStated(PathBuf_bytes(pout.pre), pin)
        /\ pout.pb.buf[pout.pb.len] = NUL
        /\ PathBuf_bytes(pout.pb) = Path_join(PathBuf_bytes(pout.pre), pin)

\* C31 witness: "/" was pushed, then "a" was joined to it, then "a" again:
\* the path is "/a/a".
C31_Witness ==
    /\ pout.ctor = "join"
    /\ ~pout.panic
    /\ pin = <<LETTER_A>>
    /\ PathBuf_bytes(pout.pre) = <<SLASH, LETTER_A>>
    /\ PathBuf_bytes(pout.pb) = <<SLASH, LETTER_A, SLASH, LETTER_A>>

\* C31 witness: "/" was pushed onto a path that is not empty.
C31_WitnessRoot ==
    /\ pout.ctor = "push"
    /\ pin = <<SLASH>>
    /\ Len(PathBuf_bytes(pout.pre)) > 1
    /\ PathBuf_bytes(pout.pb) = <<SLASH>>

\* C37: after every sequence of new, clear, push, From and try_from the
\* PathBuf has 0 < len <= 256, a buffer of 256 bytes, buf[len - 1] = 0 and
\* before it only ASCII bytes that are not NUL; a push whose result would
\* have more than 255 bytes panics, and has written nothing; no other call
\* panics.
C37_PathBufInvariants ==
    /\ pout.pb.len > 0
    /\ pout.pb.len <= MAX_SIZE_PLUS_ONE
    /\ Len(pout.pb.buf) = MAX_SIZE_PLUS_ONE
    /\ pout.pb.len <= MAX_SIZE_PLUS_ONE => pout.pb.buf[pout.pb.len] = NUL
    /\ \A i \in 1..(pout.pb.len - 1) :
          i <= MAX_SIZE_PLUS_ONE => (pout.pb.buf[i] # NUL /\ is_ascii(pout.pb.buf[i]))
    /\ pout.panic <=>
          /\ pout.ctor \in {"push", "join"}
          /\ pin \notin {<<>>, <<SLASH>>}
          /\ Len(JoinAsStated(PathBuf_bytes(pout.pre), pin)) > MAX_SIZE
    /\ pout.panic => pout.pb = pout.pre

\* C37 witness: a push onto a path of 254 bytes that would have made 256
\* bytes panicked.
C37_Witness ==
    /\ pout.ctor = "push"
    /\ pout.panic
    /\ Len(PathBuf_bytes(pout.pre)) = MAX_SIZE - 1
    /\ pin = <<LETTER_A>>

\* C37 witness: a push has filled the buffer: the path has 255 bytes.
C37_WitnessFull ==
    /\ pout.ctor = "push"
    /\ ~pout.panic
    /\ pin # <<>>
    /\ Len(PathBuf_bytes(pout.pre)) > 0
    /\ pout.pb.len = MAX_SIZE_PLUS_ONE

(***************************************************************************)
(* SpecComponents: Path::iter on a path, and the items it yields pushed     *)
(* onto an empty PathBuf.                                                   *)
(***************************************************************************)
\* Path::iter: the Iter holds the string of the path
Path_iter(self) == self

\* str::split_once('/'): the index of the first slash, 0 when there is none
FirstSlash(s) ==
    IF \E i \in 1..Len(s) : s[i] = SLASH
    THEN CHOOSE i \in 1..Len(s) : s[i] = SLASH /\ \A j \in 1..(i - 1) : s[j] # SLASH
    ELSE 0

\* impl Iterator for Iter: next, with the string the Iter holds after it
Iter_next(path) ==
    IF path = <<>> THEN [item |-> NoPath, path |-> path]
    ELSE IF path[1] = SLASH
    THEN [item |-> SomePath(<<SLASH>>), path |-> SubSeq(path, 2, Len(path))]
    ELSE LET k == FirstSlash(path)
         IN  IF k = 0
             THEN [item |-> PathOption(PathBuf_try_from(path)), path |-> <<>>]
             ELSE [item |-> PathOption(PathBuf_try_from(SubSeq(path, 1, k - 1))),
                   path |-> SubSeq(path, k + 1, Len(path))]

NoComponents ==
    [ctor |-> "none", path |-> <<>>, yielded |-> <<>>, ended |-> FALSE,
     pb |-> PathBuf_new, panic |-> FALSE]

ComponentsInit ==
    /\ DevIdle
    /\ pin \in ShortPaths
    /\ pout = NoComponents
    /\ fs = "unused" /\ stack = <<>> /\ last = "unused" /\ wrote = "unused" /\ steps = 0

\* p.iter(), and PathBuf::new() for the items
CallIter ==
    /\ pout.ctor = "none"
    /\ pout' = [NoComponents EXCEPT !.ctor = "iter", !.path = Path_iter(pin)]
    /\ UNCHANGED <<pin, fsVars, devVars>>

\* One call of next, until it has returned None; the item is pushed
CallIterNext ==
    /\ pout.ctor # "none"
    /\ ~pout.ended
    /\ LET r == Iter_next(pout.path)
           p == PathBuf_push_buf(pout.pb, r.item.path)
       IN  pout' = IF r.item.some
                   THEN [pout EXCEPT !.ctor = "next", !.path = r.path,
                                     !.yielded = Append(@, r.item.path),
                                     !.pb = p.pb, !.panic = p.panic]
                   ELSE [pout EXCEPT !.ctor = "next", !.path = r.path, !.ended = TRUE]
    /\ UNCHANGED <<pin, fsVars, devVars>>

ComponentsNext ==
    \/ CallIter
    \/ CallIterNext
SpecComponents == ComponentsInit /\ [][ComponentsNext]_vars

\* The items of a sequence that are not the root
RECURSIVE NotRoot(_)
NotRoot(s) ==
    IF s = <<>> THEN <<>>
    ELSE IF Head(s) = <<SLASH>> THEN NotRoot(Tail(s))
    ELSE <<Head(s)>> \o NotRoot(Tail(s))

\* The path without its trailing slashes; the root stays
Trimmed(p) == IF p # <<>> /\ TrimSlashes(p) = <<>> THEN <<SLASH>> ELSE TrimSlashes(p)

HasDoubleSlash(p) == \E i \in 1..(Len(p) - 1) : p[i] = SLASH /\ p[i + 1] = SLASH

\* C39, as stated: the items that p.iter() yields have the root "/" only
\* as the first item and only when p begins with '/'; none of them is
\* empty; those that are not the root are the names of p between its
\* slashes, in order; pushed in order onto an empty PathBuf they make p
\* without its trailing slashes.
C39_AsStated ==
    /\ \A i \in 1..Len(pout.yielded) :
          /\ pout.yielded[i] = <<SLASH>> => (i = 1 /\ pin[1] = SLASH)
          /\ pout.yielded[i] # <<>>
    /\ pout.ended =>
          /\ NotRoot(pout.yielded) = Split(pin)
          /\ ~pout.panic
          /\ PathBuf_bytes(pout.pb) = Trimmed(pin)

\* C39 witness: "a//b" has yielded "a", "/" and "b", then None; the items
\* pushed make "/b".
C39_Witness ==
    /\ pin = <<LETTER_A, SLASH, SLASH, LETTER_B>>
    /\ pout.ended
    /\ pout.yielded = << <<LETTER_A>>, <<SLASH>>, <<LETTER_B>> >>
    /\ PathBuf_bytes(pout.pb) = <<SLASH, LETTER_B>>

\* C39 witness: "/a/b" has yielded "/", "a" and "b", then None; the items
\* pushed make "/a/b".
C39_WitnessAbsolute ==
    /\ pin = <<SLASH, LETTER_A, SLASH, LETTER_B>>
    /\ pout.ended
    /\ pout.yielded = << <<SLASH>>, <<LETTER_A>>, <<LETTER_B>> >>
    /\ PathBuf_bytes(pout.pb) = pin

(***************************************************************************)
(* SpecCreateAll: create_dir_all among create_dir and remove.               *)
(***************************************************************************)
\* Filesystem::create_dir_all from the index i of its loop over the bytes
\* of the path: a create_dir of the bytes before every '/', then of the
\* path, with ENTRY_ALREADY_EXISTED passed over
RECURSIVE create_dir_all_from(_, _, _)
create_dir_all_from(f, path, i) ==
    IF i > Len(path)
    THEN The({[res |-> IF ~r.res.ok /\ r.res.e # ENTRY_ALREADY_EXISTED THEN r.res
                       ELSE Ok(Unit),
               fs |-> r.fs] : r \in {Filesystem_create_dir(f, path)}})
    ELSE IF path[i] # SLASH THEN create_dir_all_from(f, path, i + 1)
    ELSE IF ~PathBuf_try_from(SubSeq(path, 1, i - 1)).ok THEN [res |-> Err(IO), fs |-> f]
    ELSE The({IF ~r.res.ok /\ r.res.e # ENTRY_ALREADY_EXISTED THEN r
              ELSE create_dir_all_from(r.fs, path, i + 1) :
              r \in {Filesystem_create_dir(f,
                         PathBuf_try_from(SubSeq(path, 1, i - 1)).bytes)}})

\* Filesystem::create_dir_all
Filesystem_create_dir_all(f, path) == create_dir_all_from(f, path, 1)

CreateAllSteps == 2
CreateAllNodes == 3
\* absolute paths, and a relative path and paths with a slash at the end
CreateAllPaths ==
    Paths \cup {NamePool[1] \o <<SLASH>> \o NamePool[2], <<SLASH>> \o NamePool[1] \o <<SLASH>>,
                <<>>}

CreateAllInit ==
    /\ FsInit(CreateAllSteps)
    /\ fs.formatted
    /\ Cardinality(DOMAIN fs.tree) <= CreateAllNodes

CreateDirAll ==
    \E path \in CreateAllPaths :
        FsCall("create_dir_all", path, <<>>, <<>>, 0, Filesystem_create_dir_all(fs, path))

CreateAllNext ==
    \/ MountAndThen
    \/ MountReturn
    \/ CreateDirAll
    \/ CreateDir
    \/ Remove
SpecCreateAll == CreateAllInit /\ [][CreateAllNext]_vars

\* The locations of a path and of its parent components
Components(path) == {SubSeq(Split(path), 1, n) : n \in 0..Len(Split(path))}

\* C32, as stated: after create_dir_all(p) returned Ok, p and every parent
\* component of p exist and are directories; everything that existed is as
\* it was; the same call again returns Ok and changes nothing; an error is
\* never ENTRY_ALREADY_EXISTED.
C32_AsStated ==
    last.op = "create_dir_all" =>
        /\ last.res.ok =>
              /\ \A q \in Components(last.path) :
                    q \in DOMAIN fs.tree /\ fs.tree[q].type = "dir"
              /\ \A q \in DOMAIN last.pre.tree :
                    q \in DOMAIN fs.tree /\ fs.tree[q] = last.pre.tree[q]
              /\ Filesystem_create_dir_all(fs, last.path) = [res |-> Ok(Unit), fs |-> fs]
        /\ ~last.res.ok =>
              /\ last.res.e # ENTRY_ALREADY_EXISTED
              /\ fs.tree = last.pre.tree \/ last.res.e = NO_SPACE

\* C32 witness: create_dir_all of a path that is a file returned Ok, and
\* the path is the file it was.
C32_Witness ==
    /\ last.op = "create_dir_all"
    /\ last.res.ok
    /\ Split(last.path) \in DOMAIN fs.tree
    /\ fs.tree[Split(last.path)].type = "file"
    /\ fs.tree = last.pre.tree

\* C32 witness: create_dir_all of a path of two names, neither of which
\* existed, returned Ok and both are directories.
C32_WitnessCreated ==
    /\ last.op = "create_dir_all"
    /\ last.res.ok
    /\ Len(Split(last.path)) = 2
    /\ Cardinality(DOMAIN last.pre.tree) = 1
    /\ \A q \in Components(last.path) : q \in DOMAIN fs.tree /\ fs.tree[q].type = "dir"

(***************************************************************************)
(* SpecMountOrElse: mount_or_else on a storage that is formatted or not,    *)
(* with a callback that formats it or leaves it, and returns Ok or Err.     *)
(***************************************************************************)
\* Filesystem::mount_or_else up to the call of f: Self::new and raw_mount
mount_or_else_first(f) == Filesystem_mount(f)

\* Filesystem::mount_or_else from the return of f that mounts again
\* whatever f returned
mount_or_else_resume_always(f, f_res) ==
    LET m == Filesystem_mount(f) IN [res |-> m.res, fs |-> m.fs, mounts |-> 1]

\* Filesystem::mount_or_else from the return of f with f_res:
\* f(err, fs.storage, alloc)?; set_alloc_config; fs.raw_mount()?; Ok(fs).
\* mounts is the number of calls of raw_mount made.
mount_or_else_resume(f, f_res) ==
    IF ~f_res.ok THEN [res |-> f_res, fs |-> f, mounts |-> 0]
    ELSE LET m == Filesystem_mount(f) IN [res |-> m.res, fs |-> m.fs, mounts |-> 1]

MountOrElseSteps == 2
\* what f does to the storage, and what it returns
ElseEffects == {"format", "none"}
ElseResults == {Ok(Unit), Err(IO), Err(NO_SPACE)}

MountOrElseInit == FsInit(MountOrElseSteps)

\* Filesystem::mount_or_else up to the call of f, or to its return when the
\* mount succeeded.  last.data has the calls made so far.
MountOrElse ==
    /\ stack = <<>>
    /\ LET r == mount_or_else_first(fs)
       IN  /\ CallCost("mount_or_else", <<>>, <<>>, <<"raw_mount">>, 0, r, 0)
           /\ stack' = IF r.res.ok THEN <<Frame("mount", 0, <<>>)>>
                       ELSE <<Frame("else", 0, <<>>)>>

\* f, called with the error of the mount that is in last.res, does its work
\* and returns; mount_or_else goes on to its own return.  last.n is the
\* error that f was given, last.path2 what f did and returned.
MountOrElseReturn ==
    /\ Len(stack) = 1
    /\ Top.kind = "else"
    /\ \E effect \in ElseEffects, f_res \in ElseResults :
          LET after == IF effect = "format" THEN Filesystem_format(fs).fs ELSE fs
              r == mount_or_else_resume(after, f_res)
          IN  /\ CallCost("mount_or_else_return", <<>>, <<effect, f_res>>,
                          last.data \o <<"f">>
                              \o (IF r.mounts = 1 THEN <<"raw_mount">> ELSE <<>>),
                          last.res.e, r, 0)
              /\ stack' = IF r.res.ok THEN <<Frame("mount", 0, <<>>)>> ELSE <<>>

\* f has the storage and no Filesystem: operations are made under a mount
InMount == stack # <<>> /\ Top.kind = "mount"

MountOrElseNext ==
    \/ MountOrElse
    \/ MountOrElseReturn
    \/ MountReturn
    \/ Format
    \/ InMount /\ Write
    \/ InMount /\ Read
SpecMountOrElse == MountOrElseInit /\ [][MountOrElseNext]_vars

\* C33: when the first mount succeeds, f is not called and the mounted
\* file system is returned; when it fails, f is called once with the error
\* of that mount; when f returns Err, that error is returned and no second
\* mount is made; when f returns Ok, one more mount is made and its outcome
\* is the result.
C33_MountOrElse ==
    /\ last.op = "mount_or_else" =>
          /\ last.data = <<"raw_mount">>
          /\ last.res.ok <=> last.pre.formatted
          /\ IF last.res.ok
             THEN fs.mounted /\ stack = <<Frame("mount", 0, <<>>)>>
             ELSE ~fs.mounted /\ stack = <<Frame("else", 0, <<>>)>>
    /\ (stack # <<>> /\ Top.kind = "else") => (last.op = "mount_or_else" /\ ~last.res.ok)
    /\ last.op = "mount_or_else_return" =>
          LET effect == last.path2[1]
              f_res == last.path2[2]
              storage == IF effect = "format" THEN Filesystem_format(last.pre).fs
                         ELSE last.pre
          IN  /\ last.n = CORRUPTION
              /\ ~last.pre.formatted
              /\ IF ~f_res.ok
                 THEN /\ last.res = f_res
                      /\ last.data = <<"raw_mount", "f">>
                      /\ ~fs.mounted
                      /\ stack = <<>>
                 ELSE /\ last.data = <<"raw_mount", "f", "raw_mount">>
                      /\ last.res = Filesystem_mount(storage).res
                      /\ last.res.ok <=> effect = "format"
                      /\ IF last.res.ok
                         THEN fs.mounted /\ stack = <<Frame("mount", 0, <<>>)>>
                         ELSE ~fs.mounted /\ stack = <<>>

\* C33 witness: the mount of a storage that was not formatted failed, f
\* formatted it and returned Ok, and the second mount succeeded.
C33_Witness ==
    /\ last.op = "mount_or_else_return"
    /\ last.path2 = <<"format", Ok(Unit)>>
    /\ last.data = <<"raw_mount", "f", "raw_mount">>
    /\ last.res.ok
    /\ fs.mounted

\* C33 witness: f formatted the storage and returned an error: the error
\* is the result and the storage is not mounted.
C33_WitnessErr ==
    /\ last.op = "mount_or_else_return"
    /\ last.path2 = <<"format", Err(NO_SPACE)>>
    /\ last.res = Err(NO_SPACE)
    /\ fs.formatted
    /\ ~fs.mounted

\* C33 witness: f returned Ok without formatting: the second mount failed
\* and its error is the result.
C33_WitnessAgain ==
    /\ last.op = "mount_or_else_return"
    /\ last.path2 = <<"none", Ok(Unit)>>
    /\ last.res = Err(CORRUPTION)
    /\ stack = <<>>

(***************************************************************************)
(* SpecRemount: two mounts in a row of the same storage, with               *)
(* available_blocks asked under each, among the calls that change the tree. *)
(***************************************************************************)
\* The end of mount_and_then_with_config that gives the blocks of the
\* storage up
Filesystem_drop_erasing(f) ==
    [f EXCEPT !.mounted = FALSE, !.mlist = <<>>, !.tree = BlankFs.tree]

\* The end of mount_and_then_with_config: the Filesystem and its Allocation
\* go out of scope; nothing is written
Filesystem_drop(f) == [f EXCEPT !.mounted = FALSE, !.mlist = <<>>]

RemountSteps == 2
RemountNodes == 3
RemountInit == FsInit(RemountSteps) /\ Cardinality(DOMAIN fs.tree) <= RemountNodes

\* mount_and_then(storage, |fs| fs.available_blocks()) twice in a row.
\* last.data has the two values, last.res the outcome of the second mount.
Remount ==
    /\ stack = <<>>
    /\ LET m1 == Filesystem_mount(fs)
           a1 == Filesystem_available_blocks(m1.fs)
           m2 == Filesystem_mount(Filesystem_drop(m1.fs))
           a2 == Filesystem_available_blocks(m2.fs)
       IN  /\ m1.res.ok
           /\ CallCost("remount", <<>>, <<>>, <<a1.v, a2.v>>, 0,
                       [res |-> IF ~m2.res.ok THEN m2.res
                                ELSE IF ~a1.ok THEN a1 ELSE a2,
                        fs |-> Filesystem_drop(m2.fs)], 0)
    /\ UNCHANGED stack

RemountNext ==
    \/ Format
    \/ MountAndThen
    \/ MountReturn
    \/ Remount
    \/ CreateDir
    \/ Remove
    \/ Write
SpecRemount == RemountInit /\ [][RemountNext]_vars

lfs_file_close_rc(f, hid, rc) ==
    IF rc = OK \/ hid \notin Hids(f) THEN lfs_file_close(f, hid)
    ELSE [rc |-> rc, fs |-> [f EXCEPT !.mlist = DropHandle(@, hid)]]

\* File::close over that backend call
File_close_rc(f, hid, rc) ==
    LET r == lfs_file_close_rc(f, hid, rc) IN [res |-> result_from(Unit, r.rc), fs |-> r.fs]

\* OpenOptions::open_and_then after the callback returned res, that
\* returns the error of the callback before that of the close
open_and_then_result_callback_first(f, hid, res, rc) ==
    LET c == File_close_rc(f, hid, rc)
    IN  [res |-> IF ~res.ok THEN res ELSE IF ~c.res.ok THEN c.res ELSE res,
         fs |-> c.fs, close |-> c.res]

\* OpenOptions::open_and_then after the callback returned res:
\* let res = f(&mut file); unsafe { file.close()? }; res
open_and_then_result(f, hid, res, rc) ==
    LET c == File_close_rc(f, hid, rc)
    IN  [res |-> IF ~c.res.ok THEN c.res ELSE res, fs |-> c.fs, close |-> c.res]

\* Filesystem::read_dir_and_then after the callback returned res:
\* let res = f(&mut read_dir); read_dir.close()?; res
read_dir_and_then_result(f, hid, res) ==
    LET c == ReadDir_close(f, hid)
    IN  [res |-> IF ~c.res.ok THEN c.res ELSE res, fs |-> c.fs, close |-> c.res]

ResultSteps == 2
ResultNodes == 2
\* what a callback returns, and what the flush of a close returns
ScopedResults == {Ok(Unit), Ok("done"), Err(IO), Err(INVALID)}
CloseCodes == {OK, IO, NO_SPACE}

ScopedResultInit ==
    /\ FsInit(ResultSteps)
    /\ fs.formatted
    /\ Cardinality(DOMAIN fs.tree) <= ResultNodes

\* OpenOptions::open_and_then from the return of f.  last.path2 has what f
\* returned and what the close returned.
FileReturnResult ==
    /\ stack # <<>>
    /\ Top.kind = "file"
    /\ \E res \in ScopedResults, rc \in CloseCodes :
          LET r == open_and_then_result(fs, Top.hid, res, rc)
          IN  /\ CallCost("open_and_then", Top.path, <<res, r.close>>, <<>>, Top.hid,
                          [res |-> r.res, fs |-> r.fs], 0)
              /\ stack' = SubSeq(Track("open_and_then", fs.tree, r.fs.tree), 1, Len(stack) - 1)

\* Filesystem::read_dir_and_then from the return of f
DirReturnResult ==
    /\ stack # <<>>
    /\ Top.kind = "dir"
    /\ \E res \in ScopedResults :
          LET r == read_dir_and_then_result(fs, Top.hid, res)
          IN  /\ CallCost("read_dir_and_then", Top.path, <<res, r.close>>, <<>>, Top.hid,
                          [res |-> r.res, fs |-> r.fs], 0)
              /\ stack' = Pop

ScopedResultNext ==
    \/ MountAndThen
    \/ MountReturn
    \/ OpenAndThen
    \/ FileReturnResult
    \/ FileWrite
    \/ ReadDirAndThen
    \/ DirReturnResult
SpecScopedResult == ScopedResultInit /\ [][ScopedResultNext]_vars

\* C36: the callback of a scoped call is called when the open succeeded
\* and only then, once; when the open fails its error is returned and
\* nothing is created; when the close fails its error is returned,
\* whatever the callback returned; otherwise the call returns what the
\* callback returned.
C36_ScopedResult ==
    /\ last.op \in {"open", "read_dir"} =>
          /\ last.res.ok =>
                /\ Len(stack) = Len(last.pre.mlist) + 2
                /\ Top.hid = last.n
                /\ Top.kind = (IF last.op = "open" THEN "file" ELSE "dir")
                /\ last.n \notin Hids(last.pre)
          /\ ~last.res.ok =>
                /\ Len(stack) = Len(last.pre.mlist) + 1
                /\ fs = last.pre
          /\ (last.op = "open" /\ Split(last.path) \notin DOMAIN last.pre.tree) =>
                \A flags \in OptionSets :
                    "CREATE" \notin flags =>
                        LET o == OpenOptions_open(last.pre, last.n, last.path, flags)
                        IN  ~o.res.ok /\ o.fs = last.pre
    /\ \A i, j \in 1..Len(stack) : (i # j /\ stack[i].kind # "mount") => stack[i].hid # stack[j].hid
    /\ last.op \in {"open_and_then", "read_dir_and_then"} =>
          LET res == last.path2[1]
              close == last.path2[2]
          IN  /\ Len(stack) = Len(last.pre.mlist)
              /\ last.n \notin Hids(fs)
              /\ last.res = (IF ~close.ok THEN close ELSE res)

\* C36 witness: the callback of an open_and_then returned Err(IO), the
\* close failed with NO_SPACE, and NO_SPACE is the result.
C36_Witness ==
    /\ last.op = "open_and_then"
    /\ last.path2 = <<Err(IO), Err(NO_SPACE)>>
    /\ last.res = Err(NO_SPACE)

\* C36 witness: the callback returned a value, the close succeeded, and
\* the value is the result.
C36_WitnessValue ==
    /\ last.op = "open_and_then"
    /\ last.path2 = <<Ok("done"), Ok(Unit)>>
    /\ last.res = Ok("done")

\* C36 witness: the open of a file that does not exist, without create,
\* returned NO_SUCH_ENTRY, no callback runs and the tree is as it was.
C36_WitnessMissing ==
    /\ last.op = "open"
    /\ last.res = Err(NO_SUCH_ENTRY)
    /\ Len(stack) = 1
    /\ fs.tree = last.pre.tree

\* C36 witness: the callback of a read_dir_and_then returned an error and
\* it is the result.
C36_WitnessDir ==
    /\ last.op = "read_dir_and_then"
    /\ last.res = Err(INVALID)

(***************************************************************************)
(* SpecOptions: OpenOptions built by calls of its setters in any order.     *)
(***************************************************************************)
\* OpenOptions::create_new: EXCL and CREATE are inserted or removed
OpenOptions_create_new(self, create_new) ==
    IF create_new THEN (self \cup {"EXCL"}) \cup {"CREATE"}
    ELSE (self \ {"EXCL"}) \ {"CREATE"}

\* The flag that OpenOptions::read, write, create and truncate insert or
\* remove
FlagOf(setter) ==
    CASE setter = "read" -> "READ"
      [] setter = "write" -> "WRITE"
      [] setter = "append" -> "APPEND"
      [] setter = "create" -> "CREATE"
      [] setter = "truncate" -> "TRUNCATE"
      [] setter = "create_new" -> "EXCL"

Setters == {"read", "write", "append", "create", "truncate", "create_new"}

\* options.<setter>(on)
OpenOptions_call(self, setter, on) ==
    IF setter = "append" THEN OpenOptions_append(self, on)
    ELSE IF setter = "create_new" THEN OpenOptions_create_new(self, on)
    ELSE OpenOptions_set(self, FlagOf(setter), on)

OptionSteps == 3
NoOptions == [ctor |-> "none", flags |-> OpenOptions_new, pre |-> OpenOptions_new,
              calls |-> <<>>]

OptionsInit ==
    /\ DevIdle
    /\ pin = <<>>
    /\ pout = NoOptions
    /\ fs = "unused" /\ stack = <<>> /\ last = "unused" /\ wrote = "unused" /\ steps = 0

\* OpenOptions::new()
CallOptionsNew ==
    /\ pout.ctor = "none"
    /\ pout' = [NoOptions EXCEPT !.ctor = "new"]
    /\ UNCHANGED <<pin, fsVars, devVars>>

\* One call of a setter on the options.  pout.calls has the calls made.
CallSetter ==
    /\ pout.ctor # "none"
    /\ Len(pout.calls) < OptionSteps
    /\ \E setter \in Setters, on \in BOOLEAN :
          pout' = [ctor |-> setter,
                   flags |-> OpenOptions_call(pout.flags, setter, on),
                   pre |-> pout.flags,
                   calls |-> Append(pout.calls, [setter |-> setter, on |-> on])]
    /\ UNCHANGED <<pin, fsVars, devVars>>

OptionsNext ==
    \/ CallOptionsNew
    \/ CallSetter
SpecOptions == OptionsInit /\ [][OptionsNext]_vars

\* The options after the calls cs on OpenOptions::new()
RECURSIVE Built(_)
Built(cs) ==
    IF cs = <<>> THEN OpenOptions_new
    ELSE OpenOptions_call(Built(SubSeq(cs, 1, Len(cs) - 1)),
                          cs[Len(cs)].setter, cs[Len(cs)].on)

\* The calls cs with the last two in the other order
SwapLast(cs) ==
    SubSeq(cs, 1, Len(cs) - 2) \o <<cs[Len(cs)], cs[Len(cs) - 1]>>

\* Every call of read, write, append, create and truncate sets or clears
\* its own flag and leaves the others; two such calls of different setters
\* give the same options in either order.
PlainSetters ==
    /\ (pout.calls # <<>> /\ pout.ctor # "create_new") =>
          LET on == pout.calls[Len(pout.calls)].on
              own == FlagOf(pout.ctor)
          IN  /\ own \in pout.flags <=> on
              /\ pout.flags \ {own} = pout.pre \ {own}
    /\ (/\ Len(pout.calls) >= 2
        /\ pout.calls[Len(pout.calls)].setter # pout.calls[Len(pout.calls) - 1].setter
        /\ \A i \in {Len(pout.calls) - 1, Len(pout.calls)} :
              pout.calls[i].setter # "create_new") =>
          Built(SwapLast(pout.calls)) = pout.flags

\* C38, as stated: every call of read, write, append, create and truncate
\* sets or clears its own flag and leaves the others; create_new sets or
\* clears EXCL, leaves every flag but EXCL and CREATE, and does not clear
\* CREATE; two calls of different setters give the same options in either
\* order.
C38_AsStated ==
    /\ pout.calls # <<>> =>
          LET on == pout.calls[Len(pout.calls)].on
              own == FlagOf(pout.ctor)
          IN  /\ own \in pout.flags <=> on
              /\ IF pout.ctor = "create_new"
                 THEN /\ pout.flags \ {"EXCL", "CREATE"} = pout.pre \ {"EXCL", "CREATE"}
                      /\ "CREATE" \in pout.pre => "CREATE" \in pout.flags
                 ELSE pout.flags \ {own} = pout.pre \ {own}
    /\ (/\ Len(pout.calls) >= 2
        /\ pout.calls[Len(pout.calls)].setter # pout.calls[Len(pout.calls) - 1].setter) =>
          Built(SwapLast(pout.calls)) = pout.flags

\* C38 witness: after new().create(true).create_new(false) CREATE is not
\* set; after the two calls in the other order it is.
C38_Witness ==
    /\ pout.calls = <<[setter |-> "create", on |-> TRUE],
                      [setter |-> "create_new", on |-> FALSE]>>
    /\ "CREATE" \notin pout.flags
    /\ "CREATE" \in Built(SwapLast(pout.calls))

\* C38 witness: read(true).write(true).create_new(true), the options of
\* tests::test_fancy_open, are READ, WRITE, CREATE and EXCL.
C38_WitnessFancy ==
    /\ pout.calls = <<[setter |-> "read", on |-> TRUE], [setter |-> "write", on |-> TRUE],
                      [setter |-> "create_new", on |-> TRUE]>>
    /\ pout.flags = {"READ", "WRITE", "CREATE", "EXCL"}

(***************************************************************************)
(* SpecWriteAll: io::Write::write_all and io::Read::read_exact over any     *)
(* writer and reader: what write and read return is an input.               *)
(***************************************************************************)
\* What a call of write or read returns: Ok(n) or Err(e)
Count(n) == [ok |-> TRUE, e |-> OK, n |-> n]
Failed(e) == [ok |-> FALSE, e |-> e, n |-> 0]

\* One pass of the loop of write_all that takes Ok(0) for a write like any
\* other
write_all_pass_zero_goes_on(buf, w) ==
    IF ~w.ok THEN [pc |-> "done", res |-> Err(w.e), buf |-> buf]
    ELSE IF w.n > Len(buf) THEN [pc |-> "panic", res |-> Err(OK), buf |-> buf]
    ELSE [pc |-> "loop", res |-> Ok(Unit), buf |-> SubSeq(buf, w.n + 1, Len(buf))]

\* io::Write::write_all: one pass of the loop on a buf that is not empty,
\* when self.write(buf) returned w; res is the result when pc is "done".
\* buf = &buf[n..] panics for an n beyond the length.
write_all_pass(buf, w) ==
    IF ~w.ok THEN [pc |-> "done", res |-> Err(w.e), buf |-> buf]
    ELSE IF w.n = 0 THEN [pc |-> "done", res |-> Err(IO), buf |-> buf]
    ELSE IF w.n > Len(buf) THEN [pc |-> "panic", res |-> Err(OK), buf |-> buf]
    ELSE [pc |-> "loop", res |-> Ok(Unit), buf |-> SubSeq(buf, w.n + 1, Len(buf))]

\* io::Read::read_exact on a buf of len bytes when self.read(buf) returned r
Read_read_exact(len, r) ==
    IF ~r.ok THEN Err(r.e)
    ELSE IF r.n = len THEN Ok(Unit)
    ELSE Err(IO)

WriteAllMax == 4
WriteErrors == {IO, NO_SPACE}
\* the buffers 1, 2, .., k and k times 1
WriteBufs ==
    {[i \in 1..k |-> i] : k \in 0..WriteAllMax} \cup {[i \in 1..k |-> 1] : k \in 1..WriteAllMax}

\* pc: where the call is; buf: what write_all still has to write; sink:
\* the bytes the writer has accepted, in order; calls: what the calls of
\* write or read have returned
NoWriteAll ==
    [ctor |-> "none", pc |-> "none", buf |-> <<>>, sink |-> <<>>, calls |-> <<>>,
     res |-> Ok(Unit)]

WriteAllInit ==
    /\ DevIdle
    /\ pin \in WriteBufs
    /\ pout = NoWriteAll
    /\ fs = "unused" /\ stack = <<>> /\ last = "unused" /\ wrote = "unused" /\ steps = 0

\* w.write_all(pin) is called
CallWriteAll ==
    /\ pout.ctor = "none"
    /\ pout' = [NoWriteAll EXCEPT !.ctor = "write_all", !.pc = "loop", !.buf = pin]
    /\ UNCHANGED <<pin, fsVars, devVars>>

\* The test of the loop, and one pass with what write returns: a count up
\* to one more than the length of buf, or an error
WriteAllLoop ==
    /\ pout.ctor = "write_all"
    /\ pout.pc = "loop"
    /\ IF pout.buf = <<>>
       THEN pout' = [pout EXCEPT !.pc = "done", !.res = Ok(Unit)]
       ELSE \E w \in {Count(n) : n \in 0..(Len(pout.buf) + 1)}
                       \cup {Failed(e) : e \in WriteErrors} :
               LET r == write_all_pass(pout.buf, w)
               IN  pout' = [pout EXCEPT
                               !.pc = r.pc, !.res = r.res, !.buf = r.buf,
                               !.calls = Append(@, w),
                               !.sink = IF w.ok /\ w.n <= Len(pout.buf)
                                        THEN @ \o SubSeq(pout.buf, 1, w.n) ELSE @]
    /\ UNCHANGED <<pin, fsVars, devVars>>

\* r.read_exact(buf) with a buf as long as pin, and what read returns: a
\* count up to the length of buf, or an error
CallReadExact ==
    /\ pout.ctor = "none"
    /\ \E r \in {Count(n) : n \in 0..Len(pin)} \cup {Failed(e) : e \in WriteErrors} :
          pout' = [NoWriteAll EXCEPT !.ctor = "read_exact", !.pc = "done",
                                     !.calls = <<r>>,
                                     !.res = Read_read_exact(Len(pin), r)]
    /\ UNCHANGED <<pin, fsVars, devVars>>

WriteAllNext ==
    \/ CallWriteAll
    \/ WriteAllLoop
    \/ CallReadExact
SpecWriteAll == WriteAllInit /\ [][WriteAllNext]_vars
\* A call of write returns, and the loop goes on
SpecWriteAllLive == SpecWriteAll /\ WF_vars(WriteAllLoop)

\* What holds of write_all and read_exact in every state
WriteAllSafe ==
    /\ pout.ctor = "write_all" =>
          /\ pout.sink \o pout.buf = pin
          /\ Len(pout.calls) <= Len(pin)
          /\ \A i \in 1..(Len(pout.calls) - 1) : pout.calls[i].ok /\ pout.calls[i].n > 0
          /\ pout.pc = "loop" => \A i \in 1..Len(pout.calls) : pout.calls[i].ok /\ pout.calls[i].n > 0
          /\ pout.pc = "done" =>
                LET final == IF pout.calls = <<>> THEN Count(1)
                             ELSE pout.calls[Len(pout.calls)]
                IN  /\ pout.res.ok <=> (pout.sink = pin /\ final.ok /\ final.n > 0)
                    /\ (final.ok /\ final.n = 0) => pout.res = Err(IO)
                    /\ ~final.ok => pout.res = Err(final.e)
                    /\ pout.res.ok => pout.res = Ok(Unit)
    /\ pout.ctor = "read_exact" =>
          LET r == pout.calls[1]
          IN  /\ pout.res = Ok(Unit) <=> (r.ok /\ r.n = Len(pin))
              /\ (r.ok /\ r.n < Len(pin)) => pout.res = Err(IO)
              /\ ~r.ok => pout.res = Err(r.e)

\* C40: write_all comes to an end when every call of write returns; it
\* returns Ok only when the writes have accepted all bytes of buf in
\* order, Err(IO) at the first write that returns 0, and the first error
\* of a write as it is; read_exact returns Ok exactly when the one read
\* filled buf, and Err(IO) when the read was short.
C40_WriteAll ==
    /\ []WriteAllSafe
    /\ (pout.pc = "loop") ~> (pout.pc \in {"done", "panic"})

\* C40 witness: write_all of 3 bytes returned Ok after the writes accepted
\* 1 byte and then 2.
C40_Witness ==
    /\ pout.ctor = "write_all"
    /\ pout.pc = "done"
    /\ pin = <<1, 2, 3>>
    /\ pout.calls = <<Count(1), Count(2)>>
    /\ pout.sink = pin
    /\ pout.res = Ok(Unit)

\* C40 witness: the second write returned 0 and write_all returned Err(IO)
\* with 1 byte written.
C40_WitnessZero ==
    /\ pout.ctor = "write_all"
    /\ pout.calls = <<Count(1), Count(0)>>
    /\ pout.res = Err(IO)
    /\ pout.sink = <<1>>

\* C40 witness: the write returned NO_SPACE and write_all returned it.
C40_WitnessError ==
    /\ pout.ctor = "write_all"
    /\ pout.calls = <<Failed(NO_SPACE)>>
    /\ pout.res = Err(NO_SPACE)

\* C40 witness: the read of a buf of 2 bytes returned 1 and read_exact
\* returned Err(IO).
C40_WitnessShort ==
    /\ pout.ctor = "read_exact"
    /\ Len(pin) = 2
    /\ pout.calls = <<Count(1)>>
    /\ pout.res = Err(IO)

(***************************************************************************)
(* The storage.  src/src/macros.rs gives the RAM storage, src/src/fs.rs the *)
(* callbacks through which littlefs reads, programs and erases it.  The     *)
(* storage is modelled one program unit (WRITE_SIZE bytes) per element; a   *)
(* unit holds what one program call wrote: the revision count of a          *)
(* metadata block, one tag with its payload, the CRC that ends a commit     *)
(* (modelled by the units it covers), a chunk of file data.                 *)
(***************************************************************************)
CrashUnits == 8
ERASE_VALUE == 255
BLOCK_SIZE == CrashUnits
PUnit(k, name, val) == [k |-> k, name |-> name, val |-> val]
ErasedUnit == PUnit("erased", <<>>, ERASE_VALUE)

\* impl Default for the backend: every byte at the erase value
Ram_default == [i \in 1..(BLOCK_SIZE * BLOCK_COUNT) |-> ErasedUnit]
\* Storage::read, write and erase of the RAM storage
Storage_read(buf, offset, len) == SubSeq(buf, offset + 1, offset + len)
Storage_write(buf, offset, data) ==
    [i \in 1..Len(buf) |->
        IF i > offset /\ i <= offset + Len(data) THEN data[i - offset] ELSE buf[i]]
Storage_erase(buf, offset, len) ==
    [i \in 1..Len(buf) |-> IF i > offset /\ i <= offset + len THEN ErasedUnit ELSE buf[i]]

\* Filesystem::lfs_config_read
lfs_config_read(buf, block, off, size) == Storage_read(buf, block * BLOCK_SIZE + off, size)

\* Filesystem::lfs_config_prog that takes off for the offset in the storage
lfs_config_prog_noblock(buf, block, off, buffer) == Storage_write(buf, off, buffer)

\* Filesystem::lfs_config_prog
lfs_config_prog(buf, block, off, buffer) == Storage_write(buf, block * BLOCK_SIZE + off, buffer)

\* Filesystem::lfs_config_erase
lfs_config_erase(buf, block) == Storage_erase(buf, block * BLOCK_SIZE, BLOCK_SIZE)

\* The calls littlefs makes on the storage, and their effect.
ProgCall(block, off, unit) == [c |-> "prog", block |-> block, off |-> off, unit |-> unit]
EraseCall(block) == [c |-> "erase", block |-> block, off |-> 0, unit |-> ErasedUnit]
Progs(block, off, units) == [i \in 1..Len(units) |-> ProgCall(block, off + i - 1, units[i])]
ApplyCall(buf, call) ==
    IF call.c = "prog" THEN lfs_config_prog(buf, call.block, call.off, <<call.unit>>)
    ELSE lfs_config_erase(buf, call.block)
RECURSIVE ApplyAll(_, _)
ApplyAll(buf, calls) ==
    IF calls = <<>> THEN buf ELSE ApplyAll(ApplyCall(buf, Head(calls)), Tail(calls))

(***************************************************************************)
(* Metadata blocks.  A block of a metadata pair holds its revision count    *)
(* and then commits, each a run of tags ended by a CRC.  A block is valid   *)
(* up to its last CRC before the first CRC that does not match; of a pair   *)
(* the valid block with the larger revision count is the current one.       *)
(***************************************************************************)
RootPair == <<0, 1>>
NoCalls(rc) == [rc |-> rc, calls |-> <<>>]
Then(calls, r) == [rc |-> r.rc, calls |-> IF r.rc = OK THEN calls \o r.calls ELSE <<>>]
CrcUnit(units) == PUnit("crc", <<>>, units)
CrcPos(u) == {i \in 1..Len(u) : u[i].k = "crc"}
PrevCrc(u, j) == Max({0} \cup {i \in CrcPos(u) : i < j})
GoodCrc(u, j) == u[j].val = SubSeq(u, PrevCrc(u, j) + 1, j - 1)
CommitEnd(u) == Max({0} \cup {j \in CrcPos(u) : \A i \in CrcPos(u) : i <= j => GoodCrc(u, i)})
IsTag(x) == x.k # "crc"
RevOf(u) == IF u[1].k = "rev" THEN u[1].val ELSE -1

\* block b with units u, valid up to unit end
BlockOf(b, u, end) ==
    [block |-> b, valid |-> end > 0, rev |-> RevOf(u), off |-> end,
     tags |-> SelectSeq(SubSeq(u, 2, end), IsTag),
     erased |-> \A i \in (end + 1)..Len(u) : u[i].k = "erased"]
FetchBlock(buf, b) ==
    The({The({BlockOf(b, u, end) : end \in {IF u[1].k = "rev" THEN CommitEnd(u) ELSE 0}}) :
         u \in {lfs_config_read(buf, b, 0, BLOCK_SIZE)}})

\* lfs_dir_fetch: the current block of a pair, and the spare one
PickBlock(a, b) ==
    IF a.valid /\ (~b.valid \/ a.rev >= b.rev)
    THEN [ok |-> TRUE, cur |-> a, spare |-> b]
    ELSE [ok |-> b.valid, cur |-> b, spare |-> a]
lfs_dir_fetch(buf, pair) ==
    The({PickBlock(f[1], f[2]) : f \in {[i \in 1..2 |-> FetchBlock(buf, pair[i])]}})

\* What the tags of a directory say: its entries by name, the attributes of
\* the directory itself (the root's), the moves announced and not yet
\* completed, the superblock.
DirEntry(type, data, blocks, pair, attrs) ==
    [type |-> type, data |-> data, blocks |-> blocks, pair |-> pair, attrs |-> attrs]
NoEntries == [n \in {} |-> DirEntry("file", <<>>, <<>>, <<>>, NoAttrs)]
NoTags == [ents |-> NoEntries, self |-> NoAttrs, moves |-> {}, super |-> FALSE]
ApplyTag(st, g) ==
    LET has == g.name \in DOMAIN st.ents
        keep == IF has THEN st.ents[g.name].attrs ELSE NoAttrs
        m == <<g.name, g.val>>
    IN  CASE g.k = "super" -> [st EXCEPT !.super = TRUE]
          [] g.k = "file" ->
                [st EXCEPT !.ents = Bind(@, g.name, DirEntry("file", g.val, <<>>, <<>>, keep))]
          [] g.k = "ctz" ->
                [st EXCEPT !.ents = Bind(@, g.name, DirEntry("file", <<>>, g.val, <<>>, keep))]
          [] g.k = "dir" ->
                [st EXCEPT !.ents = Bind(@, g.name, DirEntry("dir", <<>>, <<>>, g.val, keep))]
          [] g.k = "delete" -> [st EXCEPT !.ents = Unbind(@, {g.name})]
          [] g.k = "attr" ->
                IF g.name = <<>>
                THEN [st EXCEPT !.self[g.val.id] = [set |-> TRUE, data |-> g.val.data]]
                ELSE IF has
                THEN [st EXCEPT !.ents[g.name].attrs[g.val.id] = [set |-> TRUE, data |-> g.val.data]]
                ELSE st
          [] g.k = "move" -> [st EXCEPT !.moves = (@ \ {m}) \cup ({m} \ @)]
          [] OTHER -> st
RECURSIVE Replay(_, _)
Replay(tags, st) == IF tags = <<>> THEN st ELSE Replay(Tail(tags), ApplyTag(st, Head(tags)))

\* The tags that say the same with nothing superseded: what a compaction
\* writes.
RECURSIVE AttrTags(_, _, _)
AttrTags(name, attrs, ids) ==
    IF ids = {} THEN <<>>
    ELSE LET id == Min(ids)
         IN  (IF attrs[id].set
              THEN <<PUnit("attr", name, [id |-> id, data |-> attrs[id].data])>> ELSE <<>>)
             \o AttrTags(name, attrs, ids \ {id})
EntryTags(name, e) ==
    <<IF e.type = "dir" THEN PUnit("dir", name, e.pair)
      ELSE IF e.blocks # <<>> THEN PUnit("ctz", name, e.blocks)
      ELSE PUnit("file", name, e.data)>>
    \o AttrTags(name, e.attrs, AttrIds)
RECURSIVE EntriesTags(_, _)
EntriesTags(ents, names) ==
    IF names = <<>> THEN <<>>
    ELSE EntryTags(Head(names), ents[Head(names)]) \o EntriesTags(ents, Tail(names))
RECURSIVE MoveTags(_)
MoveTags(moves) ==
    IF moves = {} THEN <<>>
    ELSE LET m == CHOOSE x \in moves : TRUE
         IN  <<PUnit("move", m[1], m[2])>> \o MoveTags(moves \ {m})
Compact(st) ==
    (IF st.super THEN <<PUnit("super", <<>>, 0)>> ELSE <<>>)
    \o EntriesTags(st.ents, SortNames(DOMAIN st.ents))
    \o AttrTags(<<>>, st.self, AttrIds)
    \o MoveTags(st.moves)

\* A block written from its start: the revision count, the tags, the CRC.
WholeBlock(block, units) ==
    <<EraseCall(block)>> \o Progs(block, 0, units \o <<CrcUnit(units)>>)
\* lfs_dir_commit: the calls that commit tags to the pair fetched as d.  They
\* are appended to the current block when what follows its last commit is
\* erased and has room; else the pair is compacted into its spare block,
\* under the next revision count.
DirCompact(d, all) ==
    IF Len(all) + 2 > BLOCK_SIZE THEN NoCalls(NO_SPACE)
    ELSE [rc |-> OK,
          calls |-> WholeBlock(d.spare.block, <<PUnit("rev", <<>>, d.cur.rev + 1)>> \o all)]
DirCommitTo(d, tags, force) ==
    IF ~force /\ d.cur.erased /\ d.cur.off + Len(tags) + 1 <= BLOCK_SIZE
    THEN [rc |-> OK, calls |-> Progs(d.cur.block, d.cur.off, tags \o <<CrcUnit(tags)>>)]
    ELSE The({DirCompact(d, all) : all \in {Compact(Replay(d.cur.tags \o tags, NoTags))}})
lfs_dir_commit(buf, pair, tags, force) ==
    The({DirCommitTo(d, tags, force) : d \in {lfs_dir_fetch(buf, pair)}})

\* lfs_dir_alloc and the first commit to the new pair: the block allocated
\* first is written, under the revision count after rev, the one found in
\* the other block.
DirAllocCommit(rev, bw, tags) == WholeBlock(bw, <<PUnit("rev", <<>>, rev + 1)>> \o tags)

(***************************************************************************)
(* The tree the storage holds.  Directories are reached from the root pair  *)
(* through their entries; an entry whose move to another directory is       *)
(* announced and not yet completed counts as deleted.                       *)
(***************************************************************************)
\* a pair, fetched, and what its tags say
Load(buf, pair) ==
    The({[f |-> f, st |-> Replay(f.cur.tags, NoTags)] : f \in {lfs_dir_fetch(buf, pair)}})
DirNames(st) == {n \in DOMAIN st.ents : st.ents[n].type = "dir"}
ChildPairs(D) ==
    UNION {{D[p].st.ents[n].pair : n \in DirNames(D[p].st)} : p \in {q \in DOMAIN D : D[q].f.ok}}
\* the pairs reached from the pairs todo, each with what Load gives
RECURSIVE Walk(_, _, _, _)
Walk(buf, seen, todo, depth) ==
    IF todo = {} \/ depth = 0 THEN seen
    ELSE The({Walk(buf, seen @@ new, ChildPairs(new) \ DOMAIN seen, depth - 1) :
              new \in {[p \in todo |-> Load(buf, p)]}})
Dirs(buf) == Walk(buf, [p \in {} |-> 0], {RootPair}, MaxDepth + 1)

\* the moves pending: announced in an odd number of directories
Pending(D) ==
    {m \in UNION {D[p].st.moves : p \in DOMAIN D} :
        Cardinality({p \in DOMAIN D : m \in D[p].st.moves}) % 2 = 1}
\* the blocks in use: the metadata pairs and the data blocks of the files
Used(D) ==
    UNION {{p[1], p[2]}
           \cup UNION {{D[p].st.ents[n].blocks[i] : i \in 1..Len(D[p].st.ents[n].blocks)} :
                       n \in DOMAIN D[p].st.ents} : p \in DOMAIN D}

\* the contents of a file kept in data blocks
RECURSIVE ReadBlocks(_, _)
ReadBlocks(buf, blocks) ==
    IF blocks = <<>> THEN <<>>
    ELSE lfs_config_read(buf, Head(blocks), 0, 1)[1].val \o ReadBlocks(buf, Tail(blocks))
NodeOf(buf, e) ==
    [type |-> e.type,
     data |-> IF e.blocks # <<>> THEN ReadBlocks(buf, e.blocks) ELSE e.data,
     attrs |-> e.attrs]
\* the entries below the directory at loc, kept in pair
RECURSIVE DevNodes(_, _, _, _, _, _)
DevNodes(buf, D, pair, loc, M, depth) ==
    IF pair \notin DOMAIN D THEN {}
    ELSE UNION {{[loc |-> loc \o <<n>>, node |-> NodeOf(buf, D[pair].st.ents[n]),
                  pair |-> D[pair].st.ents[n].pair]}
                \cup (IF D[pair].st.ents[n].type = "dir" /\ depth > 1
                      THEN DevNodes(buf, D, D[pair].st.ents[n].pair, loc \o <<n>>, M, depth - 1)
                      ELSE {}) :
                n \in {x \in DOMAIN D[pair].st.ents : <<x, pair>> \notin M}}
RootNode(D) ==
    [loc |-> Root, pair |-> RootPair,
     node |-> [type |-> "dir", data |-> <<>>, attrs |-> D[RootPair].st.self]]

\* What littlefs finds on the storage: rc is what lfs_mount returns (every
\* metadata pair must be readable and the root pair must hold the
\* superblock), tree the tree, pair the pair of each directory, dirs the
\* pairs as fetched, moves the moves pending, free the blocks not in use,
\* rev the revision count each block begins with.
ViewOf(buf, D, M, N) ==
    [rc |-> IF (\A p \in DOMAIN D : D[p].f.ok) /\ D[RootPair].st.super THEN OK ELSE CORRUPTION,
     dirs |-> D,
     moves |-> M,
     free |-> (0..(BLOCK_COUNT - 1)) \ Used(D),
     rev |-> [b \in 0..(BLOCK_COUNT - 1) |-> RevOf(lfs_config_read(buf, b, 0, 1))],
     tree |-> [p \in {x.loc : x \in N} |-> (CHOOSE x \in N : x.loc = p).node],
     pair |-> [p \in {x.loc : x \in N} |-> (CHOOSE x \in N : x.loc = p).pair]]
View(buf) ==
    The({The({The({ViewOf(buf, D, M, N) :
                   N \in {{RootNode(D)} \cup DevNodes(buf, D, RootPair, Root, M, MaxDepth)}}) :
              M \in {Pending(D)}}) :
         D \in {Dirs(buf)}})
DevMount(buf) == View(buf).rc

(***************************************************************************)
(* The operations as calls on the storage.  Each takes what littlefs finds  *)
(* on the storage (v) and returns a return code and the calls it makes, in  *)
(* order.  They are given locations for which the operation is possible.    *)
(***************************************************************************)
\* a commit to the directory at loc, when lfs_dir_find finds it
Known(v, loc) == loc \in DOMAIN v.pair /\ v.pair[loc] \in DOMAIN v.dirs
CommitIn(v, loc, tags) ==
    IF Known(v, loc) THEN DirCommitTo(v.dirs[v.pair[loc]].f, tags, FALSE)
    ELSE NoCalls(NO_SUCH_ENTRY)
\* lfs_alloc, n times: the n lowest free blocks
Alloc(v, n) ==
    [i \in 1..n |-> CHOOSE b \in v.free : Cardinality({c \in v.free : c < b}) = i - 1]

\* lfs_format: the superblock is committed to the root pair, and the pair is
\* compacted once more so that neither block holds anything older
DevFormat(buf) ==
    The({The({Then(c1, lfs_dir_commit(b1, RootPair, <<>>, TRUE)) : b1 \in {ApplyAll(buf, c1)}}) :
         c1 \in {DirAllocCommit(RevOf(lfs_config_read(buf, RootPair[2], 0, 1)), RootPair[1],
                                <<PUnit("super", <<>>, 0)>>)}})

\* lfs_fs_forceconsistency: a move that was announced is completed
Demove(v) ==
    IF v.moves = {} THEN <<>>
    ELSE The({IF m[2] \in DOMAIN v.dirs
              THEN DirCommitTo(v.dirs[m[2]].f,
                               <<PUnit("delete", m[1], 0), PUnit("move", m[1], m[2])>>, FALSE).calls
              ELSE <<>> :
              m \in {The(v.moves)}})
\* the calls that complete the moves pending, the storage after them and
\* what littlefs finds on it
RECURSIVE Settle(_, _)
Settle(buf, n) ==
    The({IF v.moves = {} \/ n = 0 THEN [calls |-> <<>>, buf |-> buf, view |-> v]
         ELSE The({The({[calls |-> c \o r.calls, buf |-> r.buf, view |-> r.view] :
                        r \in {Settle(ApplyAll(buf, c), n - 1)}}) : c \in {Demove(v)}}) :
         v \in {View(buf)}})

\* lfs_mkdir
DevMkdir(v, p) ==
    IF Cardinality(v.free) < 2 THEN NoCalls(NO_SPACE)
    ELSE The({Then(DirAllocCommit(v.rev[b[2]], b[1], <<>>),
                   CommitIn(v, Parent(p), <<PUnit("dir", Leaf(p), b)>>)) : b \in {Alloc(v, 2)}})

\* lfs_remove
DevRemove(v, p) == CommitIn(v, Parent(p), <<PUnit("delete", Leaf(p), 0)>>)

\* lfs_setattr
DevSetattr(v, p, id, data) ==
    IF p = Root
    THEN CommitIn(v, Root, <<PUnit("attr", <<>>, [id |-> id, data |-> data])>>)
    ELSE CommitIn(v, Parent(p), <<PUnit("attr", Leaf(p), [id |-> id, data |-> data])>>)

\* lfs_file_opencfg of a file that does not exist, with CREATE
DevCreate(v, p) == CommitIn(v, Parent(p), <<PUnit("file", Leaf(p), <<>>)>>)

\* lfs_file_write and lfs_file_close: contents that are not inline go to
\* fresh data blocks, then the entry is committed
Chunk(data, i) ==
    SubSeq(data, (i - 1) * BLOCK_DATA + 1, IF i * BLOCK_DATA < Len(data) THEN i * BLOCK_DATA ELSE Len(data))
RECURSIVE DataCalls(_, _, _)
DataCalls(blocks, data, i) ==
    IF i > Len(blocks) THEN <<>>
    ELSE <<EraseCall(blocks[i]), ProgCall(blocks[i], 0, PUnit("data", <<>>, Chunk(data, i)))>>
         \o DataCalls(blocks, data, i + 1)
DevStore(v, p, data) ==
    IF DataBlocks(Len(data)) = 0
    THEN CommitIn(v, Parent(p), <<PUnit("file", Leaf(p), data)>>)
    ELSE IF Cardinality(v.free) < DataBlocks(Len(data)) THEN NoCalls(NO_SPACE)
    ELSE The({Then(DataCalls(b, data, 1), CommitIn(v, Parent(p), <<PUnit("ctz", Leaf(p), b)>>)) :
              b \in {Alloc(v, DataBlocks(Len(data)))}})

\* Filesystem::write on the storage: open with WRITE, CREATE and TRUNCATE,
\* write_all, close.  Nothing is stored when the file stays empty.
DevWriteAfter(buf, v, c1, p, data, exists) ==
    IF c1.rc # OK \/ (data = <<>> /\ (~exists \/ p \notin DOMAIN v.tree \/ v.tree[p].data = <<>>))
    THEN c1
    ELSE The({Then(c1.calls, DevStore(v1, p, data)) :
              v1 \in {IF exists THEN v ELSE View(ApplyAll(buf, c1.calls))}})
DevWrite(buf, v, p, data, exists) ==
    The({DevWriteAfter(buf, v, c1, p, data, exists) :
         c1 \in {IF exists THEN NoCalls(OK) ELSE DevCreate(v, p)}})

\* lfs_rename of old to another location new: in one directory one commit;
\* between two directories the commit to the directory of new creates the
\* entry and announces the move, and a commit to the directory of old
\* deletes the entry there and completes the move
DevRenameAcross(v, old, new, put) ==
    The({IF a.rc # OK THEN a
         ELSE Then(a.calls,
                   CommitIn(v, Parent(old), <<PUnit("delete", Leaf(old), 0),
                                              PUnit("move", Leaf(old), v.pair[Parent(old)])>>)) :
         a \in {CommitIn(v, Parent(new),
                         put \o <<PUnit("move", Leaf(old), v.pair[Parent(old)])>>)}})
DevRenameTo(v, old, new, put) ==
    IF Parent(old) = Parent(new)
    THEN CommitIn(v, Parent(old), put \o <<PUnit("delete", Leaf(old), 0)>>)
    ELSE DevRenameAcross(v, old, new, put)
DevRename(v, old, new, exists) ==
    IF ~Known(v, Parent(old)) \/ old \notin DOMAIN v.tree THEN NoCalls(NO_SUCH_ENTRY)
    ELSE The({DevRenameTo(v, old, new, put) :
              put \in {(IF exists THEN <<PUnit("delete", Leaf(new), 0)>> ELSE <<>>)
                       \o EntryTags(Leaf(new), v.dirs[v.pair[Parent(old)]].st.ents[Leaf(old)])}})

(***************************************************************************)
(* SpecCrash: the operations as streams of prog and erase calls on the      *)
(* storage, one call a step, with power lost between any two calls and the  *)
(* storage mounted again.                                                   *)
(***************************************************************************)
\* Filesystem::mount on the storage
DevFilesystem_mount(f, buf) ==
    The({[res |-> result_from(Unit, v.rc),
          fs |-> IF v.rc = OK
                 THEN [f EXCEPT !.mounted = TRUE, !.tree = v.tree, !.mlist = <<>>,
                                !.badclose = FALSE]
                 ELSE f] : v \in {View(buf)}})

\* Filesystem::is_mountable that does not look
Filesystem_is_mountable_always(f, buf) == TRUE

\* Filesystem::is_mountable
Filesystem_is_mountable(f, buf) == DevFilesystem_mount(f, buf).res.ok

Op(op, path, path2, data, n, res, pre, post, mid, after) ==
    [op |-> op, path |-> path, path2 |-> path2, data |-> data, n |-> n, res |-> res,
     pre |-> pre, post |-> post, mid |-> mid, after |-> after,
     returned |-> FALSE, crashed |-> FALSE]
NoOp ==
    [Op("none", <<>>, <<>>, <<>>, 0, Ok(Unit), EmptyTree, EmptyTree, {}, BlankFs)
        EXCEPT !.returned = TRUE]

\* No operation is under way and another may start.
Ready == stream = <<>> /\ cur.returned /\ steps > 0

\* An operation starts: r is what it does to the tree, s the calls it makes
\* after the calls c0 that complete a pending move, mid the trees it passes
\* through.
Begin(op, path, path2, data, n, r, c0, s, mid) ==
    LET go == r.res.ok /\ s.rc = OK
    IN  /\ steps' = steps - 1
        /\ stream' = c0 \o (IF go THEN s.calls ELSE <<>>)
        /\ cur' = Op(op, path, path2, data, n,
                     IF go \/ ~r.res.ok THEN r.res ELSE Err(s.rc),
                     fs.tree,
                     IF go THEN r.fs.tree ELSE fs.tree,
                     IF go THEN mid \ {fs.tree, r.fs.tree} ELSE {},
                     IF go THEN r.fs ELSE fs)
        /\ UNCHANGED <<pathVars, fs, stack, last, wrote, dev>>

\* One call of the stream reaches the storage.
Step ==
    /\ stream # <<>>
    /\ dev' = ApplyCall(dev, Head(stream))
    /\ stream' = Tail(stream)
    /\ UNCHANGED <<pathVars, fsVars, cur>>

\* The operation returns.
Return ==
    /\ stream = <<>>
    /\ ~cur.returned
    /\ fs' = cur.after
    /\ last' = Rec(cur.op, cur.path, cur.path2, cur.data, cur.n, cur.res, fs)
    /\ cur' = [cur EXCEPT !.returned = TRUE]
    /\ UNCHANGED <<pathVars, stack, wrote, steps, dev, stream>>

\* Power is lost, or the Filesystem is dropped: the calls not yet made are
\* never made and nothing is mounted.
PowerLoss ==
    /\ stream # <<>> \/ ~cur.returned \/ fs.mounted
    /\ stream' = <<>>
    /\ cur' = [cur EXCEPT !.crashed = @ \/ ~cur.returned, !.returned = TRUE]
    /\ fs' = [fs EXCEPT !.mounted = FALSE, !.mlist = <<>>]
    /\ UNCHANGED <<pathVars, stack, last, wrote, steps, dev>>

\* Filesystem::mount; n records whether the storage was as Ram::default
\* leaves it
CrashMount ==
    /\ ~fs.mounted
    /\ stream = <<>>
    /\ cur.returned
    /\ \E r \in {DevFilesystem_mount(fs, dev)} :
          /\ fs' = r.fs
          /\ last' = Rec("mount", <<>>, <<>>, <<>>, IF dev = Ram_default THEN 1 ELSE 0, r.res, fs)
    /\ UNCHANGED <<pathVars, stack, wrote, steps, devVars>>

\* Filesystem::is_mountable; n records whether lfs_mount would return 0
IsMountable ==
    /\ ~fs.mounted
    /\ stream = <<>>
    /\ cur.returned
    /\ last' = Rec("is_mountable", <<>>, <<>>, <<>>, IF DevMount(dev) = OK THEN 1 ELSE 0,
                   Ok(Filesystem_is_mountable(fs, dev)), fs)
    /\ UNCHANGED <<pathVars, fs, stack, wrote, steps, devVars>>

\* Filesystem::format
CrashFormat ==
    /\ ~fs.mounted
    /\ Ready
    /\ \E r \in {Filesystem_format(fs)}, s \in {DevFormat(dev)} :
          Begin("format", <<>>, <<>>, <<>>, 0, r, <<>>, s, {})

CrashPaths == Paths
CrashContents == {<<>>, Rep(1, MaxLen)}

\* Every operation that changes the storage first completes a pending move:
\* b is what Settle gives.
CrashCreateDir ==
    /\ fs.mounted
    /\ Ready
    /\ \E b \in {Settle(dev, 1)} : \E path \in CrashPaths :
          \E r \in {Filesystem_create_dir(fs, path)} :
             \E s \in {IF r.res.ok THEN DevMkdir(b.view, Split(path)) ELSE NoCalls(OK)} :
                Begin("create_dir", path, <<>>, <<>>, 0, r, b.calls, s, {})

CrashRemove ==
    /\ fs.mounted
    /\ Ready
    /\ \E b \in {Settle(dev, 1)} : \E path \in CrashPaths :
          \E r \in {Filesystem_remove(fs, path)} :
             \E s \in {IF r.res.ok THEN DevRemove(b.view, Split(path)) ELSE NoCalls(OK)} :
                Begin("remove", path, <<>>, <<>>, 0, r, b.calls, s, {})

CrashRename ==
    /\ fs.mounted
    /\ Ready
    /\ \E b \in {Settle(dev, 1)} : \E from \in CrashPaths, to \in CrashPaths :
          /\ (from = to \/ ~IsPrefix(Split(from), Split(to))) = TRUE
          /\ \E r \in {Filesystem_rename(fs, from, to)} :
                \E s \in {IF r.res.ok /\ Split(from) # Split(to)
                           THEN DevRename(b.view, Split(from), Split(to),
                                          Split(to) \in DOMAIN fs.tree)
                           ELSE NoCalls(OK)} :
                   Begin("rename", from, to, <<>>, 0, r, b.calls, s, {})

CrashSetAttribute ==
    /\ fs.mounted
    /\ Ready
    /\ \E b \in {Settle(dev, 1)} : \E path \in CrashPaths :
          \E r \in {Filesystem_set_attribute(fs, path, 37, Rep(1, MaxLen))} :
             \E s \in {IF r.res.ok THEN DevSetattr(b.view, Split(path), 37, Rep(1, MaxLen))
                        ELSE NoCalls(OK)} :
                Begin("set_attribute", path, <<>>, Rep(1, MaxLen), 37, r, b.calls, s, {})

\* Filesystem::write; o is the open with WRITE, CREATE and TRUNCATE that it
\* begins with
CrashWrite ==
    /\ fs.mounted
    /\ Ready
    /\ \E b \in {Settle(dev, 1)} : \E path \in CrashPaths, contents \in CrashContents :
          \E r \in {Filesystem_write(fs, path, contents)},
             o \in {OpenOptions_open(fs, NewHid(fs), path, {"WRITE", "CREATE", "TRUNCATE"})} :
             \E s \in {IF r.res.ok
                        THEN DevWrite(b.buf, b.view, Split(path), contents,
                                      Split(path) \in DOMAIN fs.tree)
                        ELSE NoCalls(OK)} :
                Begin("write", path, <<>>, contents, 0, r, b.calls, s, {o.fs.tree})

\* The storage after format and the operations that make tree t.
RECURSIVE Build(_, _, _)
Build(buf, t, todo) ==
    IF todo = {} THEN buf
    ELSE The({The({The({Build(b1, t, todo \ {p}) :
                        b1 \in {ApplyAll(buf, IF t[p].type = "dir" THEN DevMkdir(v, p).calls
                                              ELSE DevWrite(buf, v, p, t[p].data, FALSE).calls)}}) :
                   v \in {View(buf)}}) :
              p \in {CHOOSE q \in todo : \A r \in todo : Len(q) <= Len(r)}})
Image(t) ==
    The({Build(b1, t, (DOMAIN t) \ {Root}) :
         b1 \in {ApplyAll(Ram_default, DevFormat(Ram_default).calls)}})

CrashSteps == 1
CrashNodes == 3
CrashTrees == {t \in InitTrees : Cardinality(DOMAIN t) <= CrashNodes}
\* The storage when power was lost during a rename from one directory to
\* another, with the move announced and not completed: the first calls of
\* the rename have been made.
Cut(img, calls) ==
    {x \in {The({[buf |-> b, view |-> View(b)] : b \in {ApplyAll(img, SubSeq(calls, 1, k))}}) :
               k \in 1..Len(calls)} : x.view.moves # {}}
Moves(t) ==
    {m \in (DOMAIN t) \X Locs :
        /\ m[1] # Root /\ m[2] # Root
        /\ Parent(m[1]) # Parent(m[2])
        /\ ~IsPrefix(m[1], m[2])
        /\ Filesystem_rename([Formatted(t) EXCEPT !.mounted = TRUE],
                             PathStr(m[1]), PathStr(m[2])).res.ok}
CrashInit ==
    /\ pin = <<>>
    /\ pout = [ctor |-> "none", res |-> PathErr("none")]
    /\ stack = <<>>
    /\ last = NoCall
    /\ wrote = NoWrite
    /\ steps = CrashSteps
    /\ stream = <<>>
    /\ cur = NoOp
    /\ \/ dev = Ram_default /\ fs = BlankFs
       \/ \E t \in CrashTrees : \E img \in {Image(t)} :
             \/ dev = img /\ fs = Formatted(t)
             \/ \E m \in Moves(t) :
                   \E x \in Cut(img, DevRename(View(img), m[1], m[2], m[2] \in DOMAIN t).calls) :
                      dev = x.buf /\ fs = Formatted(x.view.tree)
CrashNext ==
    \/ Step
    \/ Return
    \/ PowerLoss
    \/ CrashMount
    \/ IsMountable
    \/ CrashFormat
    \/ CrashCreateDir
    \/ CrashRemove
    \/ CrashRename
    \/ CrashSetAttribute
    \/ CrashWrite
SpecCrash == CrashInit /\ [][CrashNext]_vars

CrashOps == {"create_dir", "remove", "rename", "set_attribute", "write"}

\* the tree and the storage agree whenever no operation is under way
CrashSound ==
    \A v \in {View(dev)} :
       /\ (fs.mounted /\ stream = <<>> /\ cur.returned) => v.tree = fs.tree
       /\ (~fs.mounted /\ cur.op = "none") => v.tree = fs.tree

C1_WitnessCompaction ==
    /\ cur.op \in CrashOps
    /\ cur.crashed
    /\ \E v \in {View(dev)} :
          /\ \E p \in DOMAIN v.dirs :
                ~v.dirs[p].f.spare.valid /\ v.dirs[p].f.spare.rev > v.dirs[p].f.cur.rev
          /\ v.tree = cur.pre
    /\ cur.post # cur.pre
\* power was lost after Filesystem::write had made the file and before it
\* had stored the contents
C1_WitnessEmpty ==
    /\ cur.op = "write"
    /\ cur.crashed
    /\ View(dev).tree \in cur.mid
\* power was lost while an operation was completing the rename that an
\* earlier power loss had cut
C1_WitnessDemove ==
    /\ cur.op \in CrashOps
    /\ cur.crashed
    /\ cur.res.ok
    /\ \E v \in {View(dev)} : v.moves # {} /\ v.tree = cur.pre
    /\ cur.post # cur.pre

\* C4: mount of a storage with every unit at the erase value fails with
\* CORRUPTION; a mount after format has returned Ok succeeds; is_mountable
\* is true exactly when mount would succeed.
C4_Mountability ==
    /\ last.op = "mount" =>
          /\ last.n = 1 => ~last.res.ok /\ last.res.e = CORRUPTION
          /\ last.pre.formatted => last.res.ok
    /\ last.op = "is_mountable" => (last.res.v = (last.n = 1))

\* format returned Ok and the mount that followed succeeded
C4_Witness ==
    /\ cur.op = "format"
    /\ cur.returned
    /\ ~cur.crashed
    /\ last.op = "mount"
    /\ last.pre.formatted
    /\ last.res.ok
    /\ fs.mounted
\* a storage that was never formatted does not mount
C4_WitnessErased ==
    /\ dev = Ram_default
    /\ last.op = "mount"
    /\ ~last.res.ok
    /\ last.res.e = CORRUPTION
\* is_mountable has answered each way
C4_WitnessYes == last.op = "is_mountable" /\ last.res.v = TRUE
C4_WitnessNo == last.op = "is_mountable" /\ last.res.v = FALSE

(***************************************************************************)
(* SpecDriver: a storage driver whose read, write and erase can return an   *)
(* error, under mount, format and the operations that change the storage.   *)
(***************************************************************************)
\* error_code_from that answers 0 for every result
error_code_from_always_ok(result) == OK

\* fn error_code_from: result.map(|_| LFS_ERR_OK).unwrap_or_else(From::from),
\* the value that lfs_config_read, lfs_config_prog and lfs_config_erase
\* return to the backend for the result of the driver
error_code_from(result) == IF result.ok THEN OK ELSE Error_code(result.e)

DriverSteps == 1
DriverNodes == 2
DriverErrors == {IO, NO_SPACE}
DriverTrees == {t \in InitTrees : Cardinality(DOMAIN t) <= DriverNodes}
\* what the driver may return for one call
DriverResults == {Count(1)} \cup {Failed(e) : e \in DriverErrors}

\* ctor, res, code: the last call of the driver, what it returned and what
\* the backend was given for it; failed: the error that the driver has
\* returned in the operation, 0 when it has returned none
NoDriverCall == [ctor |-> "none", res |-> Count(0), code |-> OK, failed |-> 0]

DriverInit ==
    /\ pin = <<>>
    /\ pout = NoDriverCall
    /\ stack = <<>>
    /\ last = NoCall
    /\ wrote = NoWrite
    /\ steps = DriverSteps
    /\ stream = <<>>
    /\ cur = NoOp
    /\ \/ dev = Ram_default /\ fs = BlankFs
       \/ \E t \in DriverTrees : \E img \in {Image(t)} : dev = img /\ fs = Formatted(t)

\* One call of the stream is made on the driver: lfs_config_prog or
\* lfs_config_erase.  On a code that is not 0 the backend makes no further
\* call and the operation returns the code.
DriverStep ==
    /\ stream # <<>>
    /\ \E result \in DriverResults :
          LET code == error_code_from(result)
          IN  /\ pout' = [ctor |-> Head(stream).c, res |-> result, code |-> code,
                          failed |-> IF result.ok THEN pout.failed ELSE result.e]
              /\ dev' = IF result.ok THEN ApplyCall(dev, Head(stream)) ELSE dev
              /\ IF code = OK
                 THEN stream' = Tail(stream) /\ UNCHANGED <<cur, steps>>
                 ELSE /\ stream' = <<>>
                      /\ cur' = [cur EXCEPT !.res = result_from(Unit, code), !.after = fs]
                      /\ steps' = 0
    /\ UNCHANGED <<pin, fs, stack, last, wrote>>

\* Filesystem::mount, with what the driver returns for the reads:
\* lfs_config_read.  On a code that is not 0 the mount returns the code.
\* A behaviour is followed up to the first error of the driver and the
\* return of the operation that got it: no other operation begins then.
DriverMount ==
    /\ ~fs.mounted
    /\ stream = <<>>
    /\ cur.returned
    /\ \E result \in DriverResults :
          LET code == error_code_from(result)
              r == IF code = OK THEN DevFilesystem_mount(fs, dev)
                   ELSE [res |-> result_from(Unit, code), fs |-> fs]
          IN  /\ pout' = [ctor |-> "read", res |-> result, code |-> code,
                          failed |-> IF result.ok THEN 0 ELSE result.e]
              /\ fs' = r.fs
              /\ last' = Rec("mount", <<>>, <<>>, <<>>, 0, r.res, fs)
              /\ steps' = IF code = OK THEN steps ELSE 0
    /\ UNCHANGED <<pin, stack, wrote, devVars>>

DriverNext ==
    \/ DriverStep
    \/ Return
    \/ DriverMount
    \/ CrashFormat
    \/ CrashCreateDir
    \/ CrashRemove
    \/ CrashWrite
SpecDriver == DriverInit /\ [][DriverNext]_vars

C34_WitnessErase ==
    /\ pout.ctor = "erase"
    /\ pout.failed = NO_SPACE
    /\ cur.returned
    /\ last.op = "format"
    /\ last.res = Err(NO_SPACE)

\* C34 witness: a mount whose read got IO from the driver has returned
\* Err(IO), on a storage that mounts.
C34_WitnessRead ==
    /\ pout.ctor = "read"
    /\ last.op = "mount"
    /\ last.res = Err(IO)
    /\ DevMount(dev) = OK

\* C34 witness: an operation has returned Ok after calls of prog that all
\* succeeded.
C34_WitnessOk ==
    /\ pout.ctor = "prog"
    /\ pout.code = 0
    /\ cur.returned
    /\ last.op = "create_dir"
    /\ last.res.ok
====
